---- MODULE Spec2Model ----
(***************************************************************************)
(* Model of the emission-forecasting backend, in four specifications over  *)
(* the same variables:                                                     *)
(*   Spec              the anomaly-detection service (anomaly_service.py)  *)
(*   PipelineSpec      the sensor decoder, the history rows and the        *)
(*                     feature pipelines (transtrack_service.py, utils/)   *)
(*   DashboardSpec     the dashboard metrics (dashboard_service.py)        *)
(*   NotificationSpec  the notification store (notification_service.py)    *)
(*                                                                         *)
(* Numbers of the anomaly service are fixed-point integers (the units of   *)
(* the other parts are given where they are modelled):                     *)
(*   fuel_delta                  litres                                    *)
(*   speed                       km/h                                      *)
(*   distance_delta              units of 0.05 km  (0.1 km = 2)            *)
(*   co2_intensity, mean, std    units of 50 g/km  (150 = 3, 50 = 1)       *)
(*   idle_duration_daily         minutes                                   *)
(*   anomaly_score               tenths            (-0.5 = -5, -0.3 = -3)  *)
(*   severity scores, risk_score hundredths        (0.95 = 95)             *)
(*   confidence before rounding  1/300             (1/3 = 100, 0.3 = 90)   *)
(*   confidence as returned      hundredths        (round(x, 2))           *)
(* Python's None is the empty sequence, a present optional value v is <<v>>*)
(***************************************************************************)
EXTENDS Integers, Sequences, FiniteSets, TLC

VARIABLES
    files,          \* the model directory: file name -> content (os.path.exists)
    models_cache,   \* _models_cache: file name -> loaded object
    request,        \* the call being served: operation, input, scorer behaviour
    response,       \* what that call returns, until the caller has taken it
    notification_history
                    \* _notification_history: device id -> records, oldest first

vars == <<files, models_cache, request, response, notification_history>>

----------------------------------------------------------------------------
\* Bounds of the model

MaxFuelDrop == 7
MaxFuelGain == 1
MaxSpeed == 1
MaxDistanceDelta == 3
MaxCo2Intensity == 6
MaxIdleDaily == 180
MaxAnomalyMagnitude == 6

FuelDeltas == (0 - MaxFuelDrop)..MaxFuelGain
Speeds == 0..MaxSpeed
DistanceDeltas == 0..MaxDistanceDelta
Co2Intensities == 0..MaxCo2Intensity
IdleDurations == 0..MaxIdleDaily
AnomalyScores == (0 - MaxAnomalyMagnitude)..0

----------------------------------------------------------------------------
\* Helpers for Python built-ins

Min(a, b) == IF a <= b THEN a ELSE b

Max(a, b) == IF a >= b THEN a ELSE b

Abs(a) == IF a < 0 THEN 0 - a ELSE a

None == <<>>

Some(v) == <<v>>

\* dict.get(key, default)
DictGet(d, key, default) == IF key \in DOMAIN d THEN d[key] ELSE default

\* Mutant: a value that is not supplied becomes 0 instead of the default
OrDefault_NoSubstitute(x, default) == IF x = None THEN 0 ELSE x[1]

\* `x or default` on an Optional[float]: None and 0.0 are both falsy
OrDefault(x, default) == IF x = None \/ x[1] = 0 THEN default ELSE x[1]

\* max(list) of a non-empty sequence
RECURSIVE SeqMax(_)
SeqMax(s) ==
    IF Len(s) = 1 THEN s[1] ELSE Max(s[1], SeqMax(Tail(s)))

\* round(x, 2) of a value held in 1/300, in hundredths (half rounds up; no value
\* of the model lies on a half)
Round2(x) == (2 * x + 3) \div 6

----------------------------------------------------------------------------
\* Parameter file and model cache

ParamsFileName == "anomaly_detection_params.pkl"

DEFAULT_THRESHOLDS ==
    [fuel_theft_threshold |-> 0 - 5,
     excessive_idle_threshold |-> 120,
     contamination_rate |-> 5]

\* The contents a parameter file may have: a full override, a dictionary
\* without the threshold keys, and a file that cannot be unpickled.
FullParams ==
    [fuel_theft_threshold |-> 0 - 3,
     excessive_idle_threshold |-> 100,
     contamination_rate |-> 5]

PartialParams == [contamination_rate |-> 10]

FileContents ==
    {[loadable |-> TRUE, object |-> FullParams],
     [loadable |-> TRUE, object |-> PartialParams],
     [loadable |-> FALSE]}

NoFiles == [f \in {} |-> [loadable |-> FALSE]]

EmptyCache == [f \in {} |-> FullParams]

\* _notification_history = {}
NoHistory == [device_id \in {} |-> <<>>]

\* load_model: a cache hit, else a missing file raises, else the file is
\* unpickled (joblib, pickle, pickle latin1) and cached; all three failing raises.
load_model(cache, fs, filename) ==
    IF filename \in DOMAIN cache
    THEN [raised |-> FALSE, model |-> cache[filename], cache |-> cache]
    ELSE IF filename \notin DOMAIN fs
    THEN [raised |-> TRUE, cache |-> cache]
    ELSE IF ~fs[filename].loadable
    THEN [raised |-> TRUE, cache |-> cache]
    ELSE [raised |-> FALSE,
          model |-> fs[filename].object,
          cache |-> [f \in DOMAIN cache \cup {filename} |->
                        IF f = filename THEN fs[filename].object ELSE cache[f]]]

\* get_anomaly_params: the loaded parameters, the defaults when loading raises
get_anomaly_params(cache, fs) ==
    LET loaded == load_model(cache, fs, ParamsFileName)
    IN  IF loaded.raised
        THEN [params |-> DEFAULT_THRESHOLDS, cache |-> loaded.cache]
        ELSE [params |-> loaded.model, cache |-> loaded.cache]

----------------------------------------------------------------------------
\* Rule detectors

NoMovementLimit == 2

\* Mutant: a drop of exactly the threshold counts as a large drop
FuelTheftCriteria_Inclusive(input, threshold) ==
    [large_fuel_drop |-> input.fuel_delta <= threshold,
     vehicle_stationary |-> input.speed = 0,
     no_movement |-> input.distance_delta < NoMovementLimit]

\* large_fuel_drop, vehicle_stationary, no_movement
FuelTheftCriteria(input, threshold) ==
    [large_fuel_drop |-> input.fuel_delta < threshold,
     vehicle_stationary |-> input.speed = 0,
     no_movement |-> input.distance_delta < NoMovementLimit]

\* Mutant: the risk is computed behind the movement gate
RiskScore_GatedOnTheft(input, threshold, criteria) ==
    IF criteria.large_fuel_drop /\ criteria.vehicle_stationary
            /\ criteria.no_movement
    THEN Min(100, (Abs(input.fuel_delta) * 100) \div Abs(threshold))
    ELSE 0

\* risk_score: the drop relative to the threshold, capped at 1.0. The quotient
\* is in hundredths, rounded down; it is exact wherever the cap applies, which is
\* every large drop under a negative threshold.
RiskScore(input, threshold, criteria) ==
    IF criteria.large_fuel_drop
    THEN Min(100, (Abs(input.fuel_delta) * 100) \div Abs(threshold))
    ELSE 0

FuelTheftReason(criteria, is_fuel_theft) ==
    IF is_fuel_theft THEN "Fuel theft detected"
    ELSE IF criteria.large_fuel_drop /\ ~criteria.vehicle_stationary
    THEN "Suspicious fuel drop while moving"
    ELSE IF criteria.large_fuel_drop THEN "Fuel drop detected - monitoring required"
    ELSE "Normal fuel consumption"

detect_fuel_theft(input, params) ==
    LET threshold ==
            DictGet(params, "fuel_theft_threshold",
                    DEFAULT_THRESHOLDS.fuel_theft_threshold)
        criteria == FuelTheftCriteria(input, threshold)
        is_fuel_theft ==
            criteria.large_fuel_drop /\ criteria.vehicle_stationary
                /\ criteria.no_movement
    IN  [is_fuel_theft |-> is_fuel_theft,
         details |->
            [large_fuel_drop |-> criteria.large_fuel_drop,
             vehicle_stationary |-> criteria.vehicle_stationary,
             no_movement |-> criteria.no_movement,
             fuel_delta |-> input.fuel_delta,
             speed |-> input.speed,
             distance_delta |-> input.distance_delta],
         reason |-> FuelTheftReason(criteria, is_fuel_theft),
         risk_score |-> RiskScore(input, threshold, criteria)]

\* Mutant: idle time equal to the threshold counts as excessive
IsExcessive_Inclusive(idle_duration_daily, threshold) ==
    idle_duration_daily >= threshold

IsExcessive(idle_duration_daily, threshold) == idle_duration_daily > threshold

\* Mutant: the excess is counted from a warning level of 0.8 x threshold
ExcessTime_OverWarningLevel(idle_duration_daily, threshold) ==
    Max(0, idle_duration_daily - (8 * threshold) \div 10)

ExcessTime(idle_duration_daily, threshold) ==
    Max(0, idle_duration_daily - threshold)

detect_excessive_idle(input, params) ==
    LET threshold ==
            DictGet(params, "excessive_idle_threshold",
                    DEFAULT_THRESHOLDS.excessive_idle_threshold)
        is_excessive == IsExcessive(input.idle_duration_daily, threshold)
    IN  [is_excessive |-> is_excessive,
         details |->
            [idle_duration_daily |-> input.idle_duration_daily,
             threshold |-> threshold,
             excess_time |-> ExcessTime(input.idle_duration_daily, threshold),
             is_excessive |-> is_excessive],
         reason |-> IF is_excessive THEN "Excessive idle detected"
                    ELSE "Normal idle time"]

DefaultCo2Mean == 3

DefaultCo2Std == 1

\* detect_emission_inefficiency(input_data, co2_mean, co2_std); the percentile
\* (a normal CDF of the deviation) is left out of the details. deviation is in
\* hundredths of a standard deviation, rounded down.
detect_emission_inefficiency(input, co2_mean_arg, co2_std_arg) ==
    LET co2_mean ==
            IF co2_mean_arg = None
            THEN OrDefault(input.co2_intensity_mean, DefaultCo2Mean)
            ELSE co2_mean_arg[1]
        co2_std ==
            IF co2_std_arg = None
            THEN OrDefault(input.co2_intensity_std, DefaultCo2Std)
            ELSE co2_std_arg[1]
        threshold == co2_mean + 2 * co2_std
        is_inefficient == input.co2_intensity > threshold
        deviation ==
            IF co2_std > 0
            THEN ((input.co2_intensity - co2_mean) * 100) \div co2_std
            ELSE 0
    IN  [is_inefficient |-> is_inefficient,
         details |->
            [co2_intensity |-> input.co2_intensity,
             threshold |-> threshold,
             mean |-> co2_mean,
             std |-> co2_std,
             deviation |-> deviation],
         reason |-> IF is_inefficient THEN "Inefficient emission detected"
                    ELSE "Normal emission level"]

----------------------------------------------------------------------------
\* Outlier scorer (Isolation Forest) and fusion

\* What loading the model and the scaler and scoring the features does in one
\* call: it raises, or it yields score_samples()[0] and predict()[0].
ScorerOutcomes ==
    {[raises |-> TRUE, score |-> 0, prediction |-> 1]}
        \cup [raises : {FALSE}, score : AnomalyScores, prediction : {0 - 1, 1}]

\* Mutant: the fallback score is the "certainly anomalous" end of the range
NeutralScore_Anomalous == [anomaly_score |-> 0 - 10, is_anomaly_ml |-> FALSE]

\* What predict_ml_anomaly returns when the scorer raises
NeutralScore == [anomaly_score |-> 0, is_anomaly_ml |-> FALSE]

predict_ml_anomaly(scorer) ==
    IF scorer.raises
    THEN NeutralScore
    ELSE [anomaly_score |-> scorer.score,
          is_anomaly_ml |-> scorer.prediction = 0 - 1]

\* Mutant: fuel theft is scored as a HIGH anomaly
SeverityMapGet_TheftHigh(t) ==
    CASE t = "fuel_theft" -> 80
      [] t = "ml_detected" -> 70
      [] t = "excessive_idle" -> 50
      [] t = "emission_inefficient" -> 40
      [] OTHER -> 30

\* severity_map.get(t, 0.3)
SeverityMapGet(t) ==
    CASE t = "fuel_theft" -> 95
      [] t = "ml_detected" -> 70
      [] t = "excessive_idle" -> 50
      [] t = "emission_inefficient" -> 40
      [] OTHER -> 30

\* [severity_map.get(t, 0.3) for t in anomaly_types]
SeverityScores(anomaly_types) ==
    [i \in 1..Len(anomaly_types) |-> SeverityMapGet(anomaly_types[i])]

\* Mutant: a score of exactly -0.5 is adjusted too
AdjustByScore_Inclusive(max_severity_score, anomaly_score) ==
    IF anomaly_score <= 0 - 5
    THEN Min(100, max_severity_score + 20)
    ELSE max_severity_score

\* more negative = more anomalous
AdjustByScore(max_severity_score, anomaly_score) ==
    IF anomaly_score < 0 - 5
    THEN Min(100, max_severity_score + 20)
    ELSE max_severity_score

\* Mutant: HIGH starts at 0.6
SeverityLevelOf_HighFrom60(max_severity_score) ==
    IF max_severity_score >= 85 THEN "CRITICAL"
    ELSE IF max_severity_score >= 60 THEN "HIGH"
    ELSE IF max_severity_score >= 40 THEN "MEDIUM"
    ELSE "LOW"

\* Mutant: MEDIUM starts above 0.4
SeverityLevelOf_MediumAbove40(max_severity_score) ==
    IF max_severity_score >= 85 THEN "CRITICAL"
    ELSE IF max_severity_score >= 65 THEN "HIGH"
    ELSE IF max_severity_score > 40 THEN "MEDIUM"
    ELSE "LOW"

SeverityLevelOf(max_severity_score) ==
    IF max_severity_score >= 85 THEN "CRITICAL"
    ELSE IF max_severity_score >= 65 THEN "HIGH"
    ELSE IF max_severity_score >= 40 THEN "MEDIUM"
    ELSE "LOW"

\* severity_score is in 1/30000 (hundredths times 1/300)
calculate_severity(anomaly_types, anomaly_score, confidence) ==
    IF anomaly_types = <<>>
    THEN [severity |-> "LOW", severity_score |-> 0]
    ELSE LET max_severity_score ==
                 AdjustByScore(SeqMax(SeverityScores(anomaly_types)),
                               anomaly_score)
         IN  [severity |-> SeverityLevelOf(max_severity_score),
              severity_score |-> Min(30000, max_severity_score * confidence)]

\* Mutant: the emission check is appended before the scorer's
AnomalyTypes_EmissionFirst(is_fuel_theft, is_anomaly_ml, is_inefficient) ==
    (IF is_fuel_theft THEN <<"fuel_theft">> ELSE <<>>)
        \o (IF is_inefficient THEN <<"emission_inefficient">> ELSE <<>>)
        \o (IF is_anomaly_ml THEN <<"ml_detected">> ELSE <<>>)

\* anomaly_types in the order of the appends
AnomalyTypes(is_fuel_theft, is_anomaly_ml, is_inefficient) ==
    (IF is_fuel_theft THEN <<"fuel_theft">> ELSE <<>>)
        \o (IF is_anomaly_ml THEN <<"ml_detected">> ELSE <<>>)
        \o (IF is_inefficient THEN <<"emission_inefficient">> ELSE <<>>)

\* Mutant: the floor of 0.3 is applied before the boost
Confidence_FloorFirst(n_types, anomaly_score) ==
    LET base == Max(90, Min(300, 100 * n_types))
    IN  IF anomaly_score < 0 - 3 THEN Min(300, base + 90) ELSE base

\* confidence, in 1/300, before it is rounded
Confidence(n_types, anomaly_score) ==
    LET base == Min(300, 100 * n_types)
        boosted == IF anomaly_score < 0 - 3 THEN Min(300, base + 90) ELSE base
    IN  Max(90, boosted)

predict_anomaly(input, params, scorer) ==
    LET fuel_theft ==
            detect_fuel_theft(
                [speed |-> input.speed,
                 distance_delta |-> input.distance_delta,
                 fuel_delta |-> input.fuel_delta], params)
        ml == predict_ml_anomaly(scorer)
        emission ==
            detect_emission_inefficiency(
                [co2_intensity |-> input.co2_intensity,
                 co2_intensity_mean |-> None,
                 co2_intensity_std |-> None], None, None)
        anomaly_types ==
            AnomalyTypes(fuel_theft.is_fuel_theft, ml.is_anomaly_ml,
                         emission.is_inefficient)
        confidence == Confidence(Len(anomaly_types), ml.anomaly_score)
        severity ==
            calculate_severity(anomaly_types, ml.anomaly_score, confidence)
    IN  [is_anomaly |-> Len(anomaly_types) > 0,
         anomaly_score |-> ml.anomaly_score,
         anomaly_types |-> anomaly_types,
         severity |-> severity.severity,
         details |->
            [fuel_theft |->
                [details |-> fuel_theft.details,
                 reason |-> fuel_theft.reason,
                 risk_score |-> fuel_theft.risk_score],
             ml_anomaly |->
                [anomaly_score |-> ml.anomaly_score,
                 is_anomaly_ml |-> ml.is_anomaly_ml],
             emission_inefficiency |->
                [details |-> emission.details, reason |-> emission.reason]],
         confidence |-> Round2(confidence)]

----------------------------------------------------------------------------
\* State machine

FuelTheftInputs ==
    [speed : Speeds, distance_delta : DistanceDeltas, fuel_delta : FuelDeltas]

ExcessiveIdleInputs == [idle_duration_daily : IdleDurations]

OptionalCo2 == {None, Some(0), Some(1), Some(3)}

EmissionInputs ==
    [co2_intensity : Co2Intensities,
     co2_intensity_mean : OptionalCo2,
     co2_intensity_std : OptionalCo2]

\* Of the eight features only these four reach the rule detectors; the other
\* four (fuel_consumption_rate, idle_duration, rpm, engine_load) reach the
\* scorer alone, whose result is drawn from ScorerOutcomes.
AnomalyInputs ==
    [speed : Speeds, distance_delta : DistanceDeltas, fuel_delta : FuelDeltas,
     co2_intensity : Co2Intensities]

NoCall == [op |-> "none"]

\* The endpoints run one call at a time on the event loop
Idle == request = NoCall

Init ==
    /\ files \in {NoFiles} \cup {[f \in {ParamsFileName} |-> c] : c \in FileContents}
    /\ models_cache = EmptyCache
    /\ request = NoCall
    /\ response = NoCall
    /\ notification_history = NoHistory

\* A parameter file is deployed into the model directory
InstallParamsFile ==
    /\ \E c \in FileContents :
          files' = [f \in DOMAIN files \cup {ParamsFileName} |->
                        IF f = ParamsFileName THEN c ELSE files[f]]
    /\ UNCHANGED <<models_cache, request, response, notification_history>>

\* The parameter file is removed from the model directory
RemoveParamsFile ==
    /\ ParamsFileName \in DOMAIN files
    /\ files' = [f \in DOMAIN files \ {ParamsFileName} |-> files[f]]
    /\ UNCHANGED <<models_cache, request, response, notification_history>>

DetectFuelTheft ==
    /\ Idle
    /\ \E input \in FuelTheftInputs :
        LET got == get_anomaly_params(models_cache, files)
        IN  /\ request' = [op |-> "detect_fuel_theft", input |-> input]
            /\ response' = detect_fuel_theft(input, got.params)
            /\ models_cache' = got.cache
            /\ UNCHANGED <<files, notification_history>>

DetectExcessiveIdle ==
    /\ Idle
    /\ \E input \in ExcessiveIdleInputs :
        LET got == get_anomaly_params(models_cache, files)
        IN  /\ request' = [op |-> "detect_excessive_idle", input |-> input]
            /\ response' = detect_excessive_idle(input, got.params)
            /\ models_cache' = got.cache
            /\ UNCHANGED <<files, notification_history>>

\* The endpoint passes the request's own mean and std as co2_mean and co2_std
DetectEmissionInefficiency ==
    /\ Idle
    /\ \E input \in EmissionInputs :
        /\ request' = [op |-> "detect_emission_inefficiency", input |-> input]
        /\ response' =
              detect_emission_inefficiency(
                  input, input.co2_intensity_mean, input.co2_intensity_std)
        /\ UNCHANGED <<files, models_cache, notification_history>>

PredictAnomaly ==
    /\ Idle
    /\ \E input \in AnomalyInputs, scorer \in ScorerOutcomes :
        LET got == get_anomaly_params(models_cache, files)
        IN  /\ request' =
                  [op |-> "predict_anomaly", input |-> input, scorer |-> scorer]
            /\ response' = predict_anomaly(input, got.params, scorer)
            /\ models_cache' = got.cache
            /\ UNCHANGED <<files, notification_history>>

\* The caller takes the response
Return ==
    /\ ~Idle
    /\ request' = NoCall
    /\ response' = NoCall
    /\ UNCHANGED <<files, models_cache, notification_history>>

Next ==
    \/ InstallParamsFile
    \/ RemoveParamsFile
    \/ DetectFuelTheft
    \/ DetectExcessiveIdle
    \/ DetectEmissionInefficiency
    \/ PredictAnomaly
    \/ Return

Spec == Init /\ [][Next]_vars

----------------------------------------------------------------------------
\* Sensor payload decoder and record normalisation (transtrack_service)
\*
\* A payload string is a sequence of tokens: the characters "<" and ">" and
\* the maximal runs of other characters between them. A Python str, float or
\* bool held in the decoded map is [str |-> tokens], [float |-> tenths] or
\* [bool |-> b]; dict.get yields None or Some(value).

MaxTags == 3

LT == "<"

GT == ">"

\* The runs that consist of letters, digits and underscores only (\w+)
WordRuns ==
    {"ignition", "motion", "foo", "sat", "io87", "io24", "io85", "io115",
     "true", "TRUE", "True", "false", "abc", "0", "5000", "12000"}

IsWord(run) == run \in WordRuns

\* str.lower() of a run
Lower(run) ==
    CASE run = "TRUE" -> "true"
      [] run = "True" -> "true"
      [] OTHER -> run

\* The runs float() accepts, with the value it returns, in tenths
FloatTable ==
    [run \in {"0", "12.5", "5000", "12000"} |->
        CASE run = "0" -> 0
          [] run = "12.5" -> 125
          [] run = "5000" -> 50000
          [] run = "12000" -> 120000]

\* Position of the first "<" at or after position i, 0 when there is none
RECURSIVE NextLT(_, _)
NextLT(toks, i) ==
    IF i > Len(toks) THEN 0
    ELSE IF toks[i] = LT THEN i
    ELSE NextLT(toks, i + 1)

\* Where a match of <(\w+)>([^<]*)< that starts at position i ends, 0 when
\* the pattern does not match there
MatchEnd(toks, i) ==
    IF /\ i + 2 <= Len(toks)
       /\ toks[i] = LT
       /\ IsWord(toks[i + 1])
       /\ toks[i + 2] = GT
    THEN NextLT(toks, i + 3)
    ELSE 0

\* pattern.findall(other_str): the non-overlapping matches, left to right
RECURSIVE findall(_, _)
findall(toks, i) ==
    IF i > Len(toks) THEN <<>>
    ELSE LET j == MatchEnd(toks, i)
         IN  IF j = 0 THEN findall(toks, i + 1)
             ELSE <<[key |-> toks[i + 1],
                     value |-> SubSeq(toks, i + 3, j - 1)]>>
                      \o findall(toks, j + 1)

LowerStr(str) == [k \in DOMAIN str |-> Lower(str[k])]

ParsesAsFloat(str) == Len(str) = 1 /\ str[1] \in DOMAIN FloatTable

\* The body of the loop over the matches: what is stored under the key
DecodeValue(key, value) ==
    IF Lower(key) \in {"ignition", "motion"}
    THEN [bool |-> LowerStr(value) = <<"true">>]
    ELSE IF ParsesAsFloat(value) THEN [float |-> FloatTable[value[1]]]
    ELSE [str |-> value]

EmptyDict == [k \in {} |-> [str |-> <<>>]]

RECURSIVE StoreMatches(_, _)
StoreMatches(matches, data) ==
    IF matches = <<>> THEN data
    ELSE LET h == Head(matches)
         IN  StoreMatches(
                 Tail(matches),
                 [k \in DOMAIN data \cup {h.key} |->
                     IF k = h.key THEN DecodeValue(h.key, h.value)
                     ELSE data[k]])

parse_other_string(other_str) ==
    IF other_str = <<>> THEN EmptyDict
    ELSE StoreMatches(findall(other_str, 1), EmptyDict)

STATUS_MAP ==
    [code \in 1..5 |->
        CASE code = 1 -> "Drive"
          [] code = 2 -> "Idle"
          [] code = 3 -> "Start"
          [] code = 4 -> "End"
          [] code = 5 -> "Ack"]

\* other_data.get(key)
Get(d, key) == IF key \in DOMAIN d THEN Some(d[key]) ELSE None

\* Python truth value of what dict.get returned
Truthy(opt) ==
    /\ opt # None
    /\ LET v == opt[1]
       IN  CASE "bool" \in DOMAIN v -> v.bool
             [] "float" \in DOMAIN v -> v.float # 0
             [] OTHER -> v.str # <<>>

\* a or b
PyOr(a, b) == IF Truthy(a) THEN a ELSE b

\* isinstance(x, (int, float)); bool is a subclass of int
IsNumber(opt) ==
    opt # None /\ ("float" \in DOMAIN opt[1] \/ "bool" \in DOMAIN opt[1])

\* The number in tenths
NumberOf(opt) ==
    IF "bool" \in DOMAIN opt[1] THEN (IF opt[1].bool THEN 10 ELSE 0)
    ELSE opt[1].float

\* raw / divisor if isinstance(raw, (int, float)) else None, in tenths
Scaled(raw, divisor) ==
    IF IsNumber(raw) THEN Some(NumberOf(raw) \div divisor) ELSE None

\* One row of process_history_data, from the item's "other" string and the
\* group's status; timestamp, device_id, latitude, longitude and speed are
\* copied from the item unchanged and are not carried here.
HistoryRow(item, status_code) ==
    LET other_data == parse_other_string(item.other)
        raw_odometer == PyOr(Get(other_data, "io87"), Get(other_data, "io24"))
        raw_fuel_level ==
            PyOr(Get(other_data, "io85"), Get(other_data, "io115"))
        sat == Get(other_data, "sat")
    IN  [ignition |-> Get(other_data, "ignition"),
         motion |-> Get(other_data, "motion"),
         odometer_km |-> Scaled(raw_odometer, 1000),
         engine_hours |-> Get(other_data, "enginehours"),
         fuel_level_l |-> Scaled(raw_fuel_level, 10),
         rpm |-> Get(other_data, "io84"),
         battery_voltage |-> Get(other_data, "power"),
         sat |-> sat,
         hdop |-> Get(other_data, "hdop"),
         pdop |-> Get(other_data, "pdop"),
         valid |-> IsNumber(sat) /\ NumberOf(sat) > 30,
         status |-> IF status_code # None /\ status_code[1] \in DOMAIN STATUS_MAP
                    THEN Some(STATUS_MAP[status_code[1]])
                    ELSE None]

RECURSIVE GroupRows(_, _)
GroupRows(group_items, status_code) ==
    IF group_items = <<>> THEN <<>>
    ELSE <<HistoryRow(Head(group_items), status_code)>>
            \o GroupRows(Tail(group_items), status_code)

RECURSIVE process_history_data(_)
process_history_data(items) ==
    IF items = <<>> THEN <<>>
    ELSE GroupRows(Head(items).items, Head(items).status)
            \o process_history_data(Tail(items))

\* The payloads <t1>v1<t2>v2<... of up to MaxTags tags; an empty value is no
\* run at all, and a closed payload has one more "<" after the last value.
RECURSIVE Render(_)
Render(pairs) ==
    IF pairs = <<>> THEN <<>>
    ELSE LET h == Head(pairs)
         IN  <<LT, h.tag, GT>>
                \o (IF h.value = "" THEN <<>> ELSE <<h.value>>)
                \o Render(Tail(pairs))

TaggedValues(tags, values) ==
    UNION {[1..n -> [tag : tags, value : values]] : n \in 0..MaxTags}

Payloads(tags, values, closings) ==
    {Render(pairs) \o (IF closed THEN <<LT>> ELSE <<>>) :
        pairs \in TaggedValues(tags, values), closed \in closings}

DecoderTags == {"ignition", "foo"}

DecoderValues == {"true", "TRUE", "12.5", "abc"}

DecoderPayloads == Payloads(DecoderTags, DecoderValues, BOOLEAN)

IoTags == {"io87", "io24", "io85", "io115"}

IoValues == {"0", "5000", "12000"}

StatusCodes == {None, Some(2), Some(9)}

\* A history response of one group that holds one item
Histories ==
    {<<[status |-> code, items |-> <<[other |-> other]>>]>> :
        code \in StatusCodes, other \in Payloads(IoTags, IoValues, {TRUE})}

ParseOtherString ==
    /\ Idle
    /\ \E other_str \in DecoderPayloads :
        /\ request' = [op |-> "parse_other_string", other_str |-> other_str]
        /\ response' = [data |-> parse_other_string(other_str)]
        /\ UNCHANGED <<files, models_cache, notification_history>>

ProcessHistoryData ==
    /\ Idle
    /\ \E items \in Histories :
        /\ request' = [op |-> "process_history_data", items |-> items]
        /\ response' = [rows |-> process_history_data(items)]
        /\ UNCHANGED <<files, models_cache, notification_history>>

----------------------------------------------------------------------------
\* Delta and feature derivation (anomaly_preprocessing, emission_preprocessing)
\*
\* A DataFrame is a sequence of records. timestamp is in minutes after a
\* Monday 00:00, odometer_km in km, fuel_level_l in litres, speed in km/h;
\* odometer_km, fuel_level_l and rpm are None (NaN) or Some(value).
\* fuel_consumption_rate is in hundredths of a litre per km, engine_load in
\* percent, co2 in grams, means in hundredths; quotients are rounded down.

MaxBatch == 3

\* kg of CO2 per litre, in hundredths
CO2_FACTOR == 268

FillNa(opt, value) == IF opt = None THEN value ELSE opt[1]

\* Mutant: a value outside the range becomes 0
Clip_ZeroOutside(x, lower, upper) == IF x < lower \/ x > upper THEN 0 ELSE x

Clip(x, lower, upper) == Max(lower, Min(x, upper))

RowBefore(a, b) ==
    \/ a.device_id < b.device_id
    \/ a.device_id = b.device_id /\ a.timestamp < b.timestamp

RECURSIVE InsertRow(_, _)
InsertRow(sorted, row) ==
    IF sorted = <<>> THEN <<row>>
    ELSE IF RowBefore(row, Head(sorted)) THEN <<row>> \o sorted
    ELSE <<Head(sorted)>> \o InsertRow(Tail(sorted), row)

\* Mutant: the frame is left in the order given
sort_values_AsGiven(df) == df

\* df.sort_values(['device_id', 'timestamp']).reset_index(drop=True); rows
\* with the same device and timestamp keep their order
RECURSIVE sort_values(_)
sort_values(df) ==
    IF df = <<>> THEN <<>>
    ELSE InsertRow(sort_values(SubSeq(df, 1, Len(df) - 1)), df[Len(df)])

\* Mutant: the row before row i, whatever its device
PrevInGroup_AnyDevice(df, i) == i - 1

\* The row before row i in its device_id group, 0 when row i is the first
PrevInGroup(df, i) ==
    LET before == {j \in 1..(i - 1) : df[j].device_id = df[i].device_id}
    IN  IF before = {} THEN 0
        ELSE CHOOSE j \in before : \A k \in before : k <= j

\* df.groupby('device_id')[col].diff() at row i, NaN as None
GroupDiff(df, i, col) ==
    LET j == PrevInGroup(df, i)
    IN  IF j = 0 THEN None
        ELSE IF df[i][col] = None \/ df[j][col] = None THEN None
        ELSE Some(df[i][col][1] - df[j][col][1])

\* Mutant: the time since the row before row i, whatever its device
TimeDiff_AnyDevice(df, i) ==
    IF i = 1 THEN None ELSE Some(df[i].timestamp - df[i - 1].timestamp)

\* The same for the timestamp column, in minutes
TimeDiff(df, i) ==
    LET j == PrevInGroup(df, i)
    IN  IF j = 0 THEN None ELSE Some(df[i].timestamp - df[j].timestamp)

IsIdle(row) == row.speed = 0 /\ row.ignition = TRUE

\* df['rpm'].max(), which skips NaN; None when every rpm is NaN
MaxRpm(df) ==
    LET present == {i \in DOMAIN df : df[i].rpm # None}
    IN  IF present = {} THEN None
        ELSE Some(df[CHOOSE i \in present :
                        \A k \in present : df[k].rpm[1] <= df[i].rpm[1]].rpm[1])

\* (rpm / max_rpm * 100) when max_rpm > 0, else 0; NaN as None
EngineLoadRaw(row, max_rpm) ==
    IF max_rpm # None /\ max_rpm[1] > 0
    THEN (IF row.rpm = None THEN None
          ELSE Some((row.rpm[1] * 100) \div max_rpm[1]))
    ELSE Some(0)

\* Mutant: the consumption rate is not clipped to [0, 2]
FuelConsumptionRate_Unclipped(fuel_delta, distance_delta) ==
    IF distance_delta > 0
    THEN ((0 - fuel_delta) * 100) \div distance_delta
    ELSE 0

FuelConsumptionRate(fuel_delta, distance_delta) ==
    Clip(IF distance_delta > 0
         THEN ((0 - fuel_delta) * 100) \div distance_delta
         ELSE 0,
         0, 200)

Co2Grams(fuel_delta) == Max(0 - fuel_delta, 0) * CO2_FACTOR * 10

Co2Intensity(fuel_delta, distance_delta) ==
    Clip(IF distance_delta > 0
         THEN Co2Grams(fuel_delta) \div distance_delta
         ELSE 0,
         0, 1000)

\* Row i of the prepared frame, from the sorted frame
AnomalyFeatures(df, i) ==
    LET time_delta == Clip(FillNa(TimeDiff(df, i), 0), 0, 1440)
        distance_delta ==
            Clip(FillNa(GroupDiff(df, i, "odometer_km"), 0), 0, 200)
        fuel_delta ==
            Clip(FillNa(GroupDiff(df, i, "fuel_level_l"), 0), 0 - 50, 50)
    IN  [device_id |-> df[i].device_id,
         timestamp |-> df[i].timestamp,
         odometer_km |-> df[i].odometer_km,
         fuel_level_l |-> df[i].fuel_level_l,
         speed |-> df[i].speed,
         ignition |-> df[i].ignition,
         rpm |-> df[i].rpm,
         time_delta |-> time_delta,
         distance_delta |-> distance_delta,
         fuel_delta |-> fuel_delta,
         is_idle |-> IF IsIdle(df[i]) THEN 1 ELSE 0,
         idle_duration |-> IF IsIdle(df[i]) THEN time_delta ELSE 0,
         engine_load |->
            Clip(FillNa(EngineLoadRaw(df[i], MaxRpm(df)), 0), 0, 100),
         fuel_consumption_rate |->
            FuelConsumptionRate(fuel_delta, distance_delta),
         co2_grams |-> Co2Grams(fuel_delta),
         co2_intensity |-> Co2Intensity(fuel_delta, distance_delta)]

prepare_anomaly_detection_data(df) ==
    LET sorted == sort_values(df)
    IN  [i \in DOMAIN sorted |-> AnomalyFeatures(sorted, i)]

\* Row i of prepare_raw_data's frame, from the sorted frame; time_delta is in
\* minutes (units of 1/60 hour) and fuel_delta is the fuel consumed
RawFeatures(df, i) ==
    LET distance_delta == FillNa(GroupDiff(df, i, "odometer_km"), 0)
        fuel_delta ==
            FillNa(IF GroupDiff(df, i, "fuel_level_l") = None THEN None
                   ELSE Some(0 - GroupDiff(df, i, "fuel_level_l")[1]), 0)
        co2_grams == fuel_delta * CO2_FACTOR * 10
    IN  [device_id |-> df[i].device_id,
         timestamp |-> df[i].timestamp,
         odometer_km |-> FillNa(df[i].odometer_km, 0),
         fuel_level_l |-> FillNa(df[i].fuel_level_l, 0),
         speed |-> df[i].speed,
         ignition |-> df[i].ignition,
         rpm |-> FillNa(df[i].rpm, 0),
         distance_delta |-> IF distance_delta < 0 THEN 0 ELSE distance_delta,
         time_delta |-> FillNa(TimeDiff(df, i), 0),
         fuel_delta |-> IF fuel_delta < 0 THEN 0 ELSE fuel_delta,
         is_moving |-> IF df[i].speed > 0 THEN 1 ELSE 0,
         is_idle |-> IF IsIdle(df[i]) THEN 1 ELSE 0,
         engine_load |-> FillNa(EngineLoadRaw(df[i], MaxRpm(df)), 0),
         co2_grams |-> IF co2_grams < 0 THEN 0 ELSE co2_grams,
         hour |-> (df[i].timestamp \div 60) % 24,
         day_of_week |-> (df[i].timestamp \div 1440) % 7,
         is_weekend |-> IF (df[i].timestamp \div 1440) % 7 >= 5 THEN 1 ELSE 0]

prepare_raw_data(df) ==
    LET sorted == sort_values(df)
    IN  [i \in DOMAIN sorted |-> RawFeatures(sorted, i)]

\* df['timestamp'].dt.floor('H'), in hours after the Monday 00:00
DateHour(row) == row.timestamp \div 60

RECURSIVE SumOver(_, _, _)
SumOver(df, rows, col) ==
    IF rows = {} THEN 0
    ELSE LET i == CHOOSE i \in rows : TRUE
         IN  df[i][col] + SumOver(df, rows \ {i}, col)

MaxOver(df, rows, col) ==
    df[CHOOSE i \in rows : \A k \in rows : df[k][col] <= df[i][col]][col]

MeanOver(df, rows, col) == (SumOver(df, rows, col) * 100) \div Cardinality(rows)

\* The aggregate of one (device_id, date_hour) group; speed_std is left out
HourlyRow(df, device_id, date_hour) ==
    LET rows == {i \in DOMAIN df :
                    df[i].device_id = device_id /\ DateHour(df[i]) = date_hour}
        first == CHOOSE i \in rows : \A k \in rows : i <= k
    IN  [device_id |-> device_id,
         date_hour |-> date_hour,
         speed_mean |-> MeanOver(df, rows, "speed"),
         speed_max |-> MaxOver(df, rows, "speed"),
         distance_delta_total |-> SumOver(df, rows, "distance_delta"),
         rpm_mean |-> MeanOver(df, rows, "rpm"),
         rpm_max |-> MaxOver(df, rows, "rpm"),
         engine_load_mean |-> MeanOver(df, rows, "engine_load"),
         is_moving_mean |-> MeanOver(df, rows, "is_moving"),
         is_idle_total |-> SumOver(df, rows, "is_idle"),
         co2_grams_total |-> SumOver(df, rows, "co2_grams"),
         hour |-> df[first].hour,
         day_of_week |-> df[first].day_of_week,
         is_weekend |-> df[first].is_weekend]

\* The groups of df.groupby(['device_id', 'date_hour']), in key order
RECURSIVE GroupKeys(_)
GroupKeys(keys) ==
    IF keys = {} THEN <<>>
    ELSE LET least ==
                CHOOSE a \in keys :
                    \A b \in keys :
                        a[1] < b[1] \/ (a[1] = b[1] /\ a[2] <= b[2])
         IN  <<least>> \o GroupKeys(keys \ {least})

aggregate_to_hourly(df) ==
    LET keys ==
            GroupKeys({<<df[i].device_id, DateHour(df[i])>> : i \in DOMAIN df})
    IN  [k \in DOMAIN keys |-> HourlyRow(df, keys[k][1], keys[k][2])]

process_anomaly_detection_pipeline(df) == prepare_anomaly_detection_data(df)

process_raw_data_pipeline(df) == aggregate_to_hourly(prepare_raw_data(df))

DeviceIds == {1, 2}

\* Minutes: two instants in one hour and one more than a day later
Timestamps == {0, 30, 1500}

\* Sensor readings: idling, driving, parked, and one with the odometer
\* missing and a negative rpm
Readings ==
    {[odometer_km |-> Some(0), fuel_level_l |-> Some(100), speed |-> 0,
      ignition |-> TRUE, rpm |-> Some(800)],
     [odometer_km |-> Some(10), fuel_level_l |-> Some(40), speed |-> 60,
      ignition |-> TRUE, rpm |-> Some(2000)],
     [odometer_km |-> Some(400), fuel_level_l |-> Some(10), speed |-> 0,
      ignition |-> FALSE, rpm |-> Some(0)],
     [odometer_km |-> None, fuel_level_l |-> Some(70), speed |-> 0,
      ignition |-> TRUE, rpm |-> Some(0 - 100)]}

\* The second device reports readings with every sensor in its normal range
ReadingsOf(device_id, readings) ==
    IF device_id = 1 THEN readings
    ELSE {r \in readings :
            r.odometer_km # None /\ r.odometer_km[1] <= 200 /\ r.rpm[1] >= 0}

Samples(readings) ==
    UNION {{[device_id |-> d, timestamp |-> t, odometer_km |-> r.odometer_km,
             fuel_level_l |-> r.fuel_level_l, speed |-> r.speed,
             ignition |-> r.ignition, rpm |-> r.rpm] :
                t \in Timestamps, r \in ReadingsOf(d, readings)} :
           d \in DeviceIds}

\* The raw frames of one to MaxBatch samples, in any order
Batches(readings) == UNION {[1..n -> Samples(readings)] : n \in 1..MaxBatch}

\* The hourly pipeline is run on the idling and the parked readings
StationaryReadings == {r \in Readings : r.speed = 0 /\ r.odometer_km # None}

ProcessAnomalyDetectionPipeline ==
    /\ Idle
    /\ \E df \in Batches(Readings) :
        /\ request' = [op |-> "process_anomaly_detection_pipeline", df |-> df]
        /\ response' = [df |-> process_anomaly_detection_pipeline(df)]
        /\ UNCHANGED <<files, models_cache, notification_history>>

ProcessRawDataPipeline ==
    /\ Idle
    /\ \E df \in Batches(StationaryReadings) :
        /\ request' = [op |-> "process_raw_data_pipeline", df |-> df]
        /\ response' = [df |-> process_raw_data_pipeline(df)]
        /\ UNCHANGED <<files, models_cache, notification_history>>

PipelineInit ==
    /\ files = NoFiles
    /\ models_cache = EmptyCache
    /\ request = NoCall
    /\ response = NoCall
    /\ notification_history = NoHistory

PipelineNext ==
    \/ ParseOtherString
    \/ ProcessHistoryData
    \/ ProcessAnomalyDetectionPipeline
    \/ ProcessRawDataPipeline
    \/ Return

PipelineSpec == PipelineInit /\ [][PipelineNext]_vars

-----------------------------------------------------------------------------
\* The dashboard metrics (dashboard_service.py, api/v1/dashboard.py).  A
\* timestamp "YYYY-MM-DD HH:MM:SS" is a record of its date (0 is today in UTC,
\* -1 yesterday) and its minute of the day; a datetime carries in addition
\* whether it is timezone-aware.  Fuel is in litres and distance in km (whole
\* numbers); every value the code rounds to two decimals is in hundredths.

MaxRecords == 3

\* kg of CO2 per litre, in hundredths
DIESEL_EMISSION_FACTOR == 268

IDLE_TIME_CRITICAL_MINS == 120

IDLE_TIME_WARNING_MINS == 30

Today == 0

\* round(num / den, 0) of a non-negative quotient (no value of the model lies
\* on a half)
RoundDiv(num, den) == (2 * num + den) \div (2 * den)

\* Mutant: status code 5 is reported as a theft
StatusStr_TheftCode(status_code) ==
    IF status_code = Some(5) THEN Some("Theft")
    ELSE IF status_code # None /\ status_code[1] \in DOMAIN STATUS_MAP
    THEN Some(STATUS_MAP[status_code[1]])
    ELSE None

\* STATUS_MAP.get(status_code, None)
StatusStr(status_code) ==
    IF status_code # None /\ status_code[1] \in DOMAIN STATUS_MAP
    THEN Some(STATUS_MAP[status_code[1]])
    ELSE None

\* The fields of process_history_data's rows that the dashboard reads
DashboardRows(items) ==
    [i \in DOMAIN items |->
        [timestamp |-> items[i].time,
         status |-> StatusStr(items[i].status_code),
         fuel_level_l |-> items[i].fuel_level_l,
         odometer_km |-> items[i].odometer_km]]

\* The items with a timestamp whose date (timestamp_str[:10]) is the target
filter_history_by_date(history_data, target_date) ==
    SelectSeq(history_data,
              LAMBDA item : /\ item.timestamp # None
                            /\ item.timestamp[1].date = target_date)

\* datetime.strptime(ts, "%Y-%m-%d %H:%M:%S"): a naive datetime
strptime(timestamp) ==
    [date |-> timestamp.date, minute |-> timestamp.minute, aware |-> FALSE]

\* datetime.now(timezone.utc): an aware datetime
now_utc(minute) == [date |-> Today, minute |-> minute, aware |-> TRUE]

\* (a - b).total_seconds() / 60; subtracting a naive datetime from an aware
\* one (or the reverse) raises TypeError, None here
MinutesBetween(a, b) ==
    IF a.aware # b.aware THEN None
    ELSE Some((a.date - b.date) * 1440 + a.minute - b.minute)

\* The sort key is _parse_ts: the item's time, datetime.min for a missing
\* timestamp
RECURSIVE InsertByTs(_, _)
InsertByTs(sorted_items, item) ==
    IF sorted_items = <<>> THEN <<item>>
    ELSE IF LET parse_ts(it) ==
                    IF it.timestamp = None THEN 0 - 1000000
                    ELSE it.timestamp[1].date * 1440 + it.timestamp[1].minute
            IN  parse_ts(item) < parse_ts(Head(sorted_items))
    THEN <<item>> \o sorted_items
    ELSE <<Head(sorted_items)>> \o InsertByTs(Tail(sorted_items), item)

\* sorted(history_data, key=_parse_ts): stable
RECURSIVE sorted_history(_)
sorted_history(history_data) ==
    IF history_data = <<>> THEN <<>>
    ELSE InsertByTs(sorted_history(SubSeq(history_data, 1,
                                          Len(history_data) - 1)),
                    history_data[Len(history_data)])

\* The locals of calculate_dashboard_metrics before its loop
LoopInit ==
    [total_fuel_consumed_l |-> 0,
     total_distance_km |-> 0,
     total_idle_minutes |-> 0,
     has_theft_alert |-> FALSE,
     last_timestamp |-> None,
     current_status |-> None,
     prev_fuel_level_l |-> None,
     prev_odometer_km |-> None,
     idle_period_start |-> None]

\* Mutant: every Idle or Start record restarts the idle period
IdleStartAfter_Restarted(s, item) ==
    IF item.status \in {Some("Idle"), Some("Start")}
    THEN (IF item.timestamp # None
          THEN Some(strptime(item.timestamp[1]))
          ELSE s.idle_period_start)
    ELSE IF item.status \in {Some("Drive"), Some("End")}
    THEN (IF s.idle_period_start # None /\ item.timestamp # None
          THEN None
          ELSE s.idle_period_start)
    ELSE s.idle_period_start

\* idle_period_start after one record
IdleStartAfter(s, item) ==
    IF item.status \in {Some("Idle"), Some("Start")}
    THEN (IF s.idle_period_start = None /\ item.timestamp # None
          THEN Some(strptime(item.timestamp[1]))
          ELSE s.idle_period_start)
    ELSE IF item.status \in {Some("Drive"), Some("End")}
    THEN (IF s.idle_period_start # None /\ item.timestamp # None
          THEN None
          ELSE s.idle_period_start)
    ELSE s.idle_period_start

\* total_idle_minutes after one record
IdleMinutesAfter(s, item) ==
    IF /\ item.status \in {Some("Drive"), Some("End")}
       /\ s.idle_period_start # None
       /\ item.timestamp # None
    THEN LET diff == MinutesBetween(strptime(item.timestamp[1]),
                                    s.idle_period_start[1])
         IN  IF diff = None THEN s.total_idle_minutes
             ELSE s.total_idle_minutes + Max(0, diff[1])
    ELSE s.total_idle_minutes

\* One pass of the loop over sorted_history
LoopBody(s, item) ==
    LET fuel_delta == s.prev_fuel_level_l[1] - item.fuel_level_l[1]
        distance_delta == item.odometer_km[1] - s.prev_odometer_km[1]
    IN  [total_fuel_consumed_l |->
            IF /\ s.prev_fuel_level_l # None
               /\ item.fuel_level_l # None
               /\ 0 < fuel_delta /\ fuel_delta < 100
            THEN s.total_fuel_consumed_l + fuel_delta
            ELSE s.total_fuel_consumed_l,
         total_distance_km |->
            IF /\ s.prev_odometer_km # None
               /\ item.odometer_km # None
               /\ 0 < distance_delta /\ distance_delta < 200
            THEN s.total_distance_km + distance_delta
            ELSE s.total_distance_km,
         total_idle_minutes |-> IdleMinutesAfter(s, item),
         has_theft_alert |->
            s.has_theft_alert \/ item.status = Some("Theft"),
         last_timestamp |->
            IF item.timestamp # None THEN item.timestamp
            ELSE s.last_timestamp,
         current_status |->
            IF item.timestamp # None THEN item.status ELSE s.current_status,
         prev_fuel_level_l |->
            IF item.fuel_level_l # None THEN item.fuel_level_l
            ELSE s.prev_fuel_level_l,
         prev_odometer_km |->
            IF item.odometer_km # None THEN item.odometer_km
            ELSE s.prev_odometer_km,
         idle_period_start |-> IdleStartAfter(s, item)]

\* The locals after the first k records of the sorted history
RECURSIVE LoopAfter(_, _)
LoopAfter(history, k) ==
    IF k = 0 THEN LoopInit
    ELSE LoopBody(LoopAfter(history, k - 1), history[k])

\* The idle period still open after the loop, counted up to the current time
\* unless the subtraction raises
CloseOpenPeriod(s, current_time) ==
    IF s.idle_period_start = None THEN s.total_idle_minutes
    ELSE LET diff == MinutesBetween(current_time, s.idle_period_start[1])
         IN  IF diff = None THEN s.total_idle_minutes
             ELSE s.total_idle_minutes + Max(0, diff[1])

StatusColor(total_idle_minutes, has_theft_alert) ==
    IF total_idle_minutes > IDLE_TIME_CRITICAL_MINS \/ has_theft_alert
    THEN "Red"
    ELSE IF total_idle_minutes > IDLE_TIME_WARNING_MINS THEN "Yellow"
    ELSE "Green"

\* status_reason, as the set of its phrases
StatusReason(total_idle_minutes, has_theft_alert) ==
    IF total_idle_minutes > IDLE_TIME_CRITICAL_MINS \/ has_theft_alert
    THEN (IF total_idle_minutes > IDLE_TIME_CRITICAL_MINS
          THEN {"Idle time > 2 jam"} ELSE {})
         \cup (IF has_theft_alert THEN {"Theft alert detected"} ELSE {})
    ELSE IF total_idle_minutes > IDLE_TIME_WARNING_MINS
    THEN {"Idle time > 30 menit"}
    ELSE {"Kondisi baik"}

\* The result when no record of today is left (its phrase is under the key
\* summary, and its details hold the three totals only)
NoDataMetrics ==
    [total_emissions_kg |-> 0,
     emission_intensity_gco2_km |-> 0,
     idle_time_hours |-> 0,
     status_color |-> "Green",
     status_reason |-> {"Tidak ada data"},
     details |-> [total_fuel_consumed_l |-> 0,
                  total_distance_km |-> 0,
                  idle_time_minutes |-> 0,
                  last_status |-> None,
                  last_timestamp |-> None,
                  data_records_used |-> 0]]

calculate_dashboard_metrics(all_history, now) ==
    LET history_data == filter_history_by_date(all_history, Today)
        history == sorted_history(history_data)
        s == LoopAfter(history, Len(history))
        total_idle_minutes == CloseOpenPeriod(s, now_utc(now))
        \* kg in hundredths
        total_emissions_kg == s.total_fuel_consumed_l * DIESEL_EMISSION_FACTOR
    IN  IF history_data = <<>> THEN NoDataMetrics
        ELSE [total_emissions_kg |-> RoundDiv(total_emissions_kg, 1000),
              emission_intensity_gco2_km |->
                IF s.total_distance_km > 0
                THEN RoundDiv(total_emissions_kg * 10, s.total_distance_km)
                ELSE 0,
              idle_time_hours |-> RoundDiv(total_idle_minutes * 100, 60 * 2),
              status_color |->
                StatusColor(total_idle_minutes, s.has_theft_alert),
              status_reason |->
                StatusReason(total_idle_minutes, s.has_theft_alert),
              details |->
                [total_fuel_consumed_l |->
                    RoundDiv(s.total_fuel_consumed_l * 100, 1000),
                 total_distance_km |-> s.total_distance_km,
                 idle_time_minutes |-> total_idle_minutes,
                 last_status |-> s.current_status,
                 last_timestamp |-> s.last_timestamp,
                 data_records_used |-> Len(history_data)]]

\* Items that report a status (Drive, Idle, Start, End, Ack or none) at
\* 00:00, 00:36 or 03:00 of today, and no sensor value
StatusItems ==
    {[time |-> Some([date |-> Today, minute |-> t]), status_code |-> c,
      fuel_level_l |-> None, odometer_km |-> None] :
        t \in {0, 36, 180},
        c \in {None, Some(1), Some(2), Some(3), Some(4), Some(5)}}

\* Fuel level and odometer of a driving vehicle: two normal readings, one
\* with both sensors missing, one far from the others
Gauges ==
    {[fuel_level_l |-> Some(60), odometer_km |-> Some(0)],
     [fuel_level_l |-> Some(50), odometer_km |-> Some(10)],
     [fuel_level_l |-> None, odometer_km |-> None],
     [fuel_level_l |-> Some(200), odometer_km |-> Some(300)]}

\* The history of a driving vehicle, from the gauge and the day of each item:
\* an item was recorded today or yesterday, six minutes after the item before
\* it, or carries no time at all
DrivingHistory(f) ==
    [i \in DOMAIN f |->
        [time |-> IF f[i][2] = "missing" THEN None
                  ELSE Some([date |-> IF f[i][2] = "today" THEN Today
                                      ELSE Today - 1,
                             minute |-> 6 * i]),
         status_code |-> Some(1),
         fuel_level_l |-> f[i][1].fuel_level_l,
         odometer_km |-> f[i][1].odometer_km]]

\* GET /metrics at 04:00 UTC: the day's history of one to MaxRecords items is
\* fetched and processed, and the metrics are computed from its rows
DashboardMetrics ==
    LET Serve(items, now) ==
            /\ request' = [op |-> "dashboard_metrics", items |-> items,
                           now |-> now]
            /\ response' =
                    [metrics |->
                        calculate_dashboard_metrics(DashboardRows(items), now)]
            /\ UNCHANGED <<files, models_cache, notification_history>>
    IN  /\ Idle
        /\ \E n \in 1..MaxRecords :
            \/ \E items \in [1..n -> StatusItems] : Serve(items, 240)
            \/ \E f \in [1..n -> Gauges \X {"today", "yesterday", "missing"}] :
                    Serve(DrivingHistory(f), 240)

DashboardInit ==
    /\ files = NoFiles
    /\ models_cache = EmptyCache
    /\ request = NoCall
    /\ response = NoCall
    /\ notification_history = NoHistory

DashboardNext ==
    \/ DashboardMetrics
    \/ Return

DashboardSpec == DashboardInit /\ [][DashboardNext]_vars

-----------------------------------------------------------------------------
\* The notifications (notification_service.py, api/v1/notification.py).  A
\* stored record carries its timestamp, notification_type, priority and
\* status; title and message are formatting and are left out.  The clock is
\* in days and advances one day with every record saved.  Emission intensity
\* is in g/km, emissions in kg, fuel in litres, idle time in tenths of an hour.

MaxStored == 3

\* NOTIFICATION_THRESHOLDS; the idle thresholds in tenths of an hour
NOTIFICATION_THRESHOLDS ==
    [emission_intensity_critical |-> 400,
     emission_intensity_high |-> 300,
     emission_intensity_medium |-> 200,
     idle_time_critical |-> 20,
     idle_time_warning |-> 5,
     fuel_consumption_high |-> 50,
     fuel_consumption_medium |-> 30]

NotificationDetail(notification_type, priority) ==
    [notification_type |-> notification_type, priority |-> priority]

\* The notifications of generate_dashboard_notifications: 1. fuel theft,
\* 2. emission intensity, 3. idle time, 4. total emissions, 5. fuel
\* consumption, and the positive one (6.) when the status is green and
\* nothing else was raised
DashboardNotifications(input_data) ==
    LET T == NOTIFICATION_THRESHOLDS
        intensity == input_data.emission_intensity_gco2_km
        alerts ==
            (IF input_data.has_theft_alert
             THEN <<NotificationDetail("FUEL_THEFT_ALERT", "CRITICAL")>>
             ELSE <<>>)
            \o (IF intensity > T.emission_intensity_critical
                THEN <<NotificationDetail("EMISSION_ALERT", "CRITICAL")>>
                ELSE IF intensity > T.emission_intensity_high
                THEN <<NotificationDetail("EMISSION_ALERT", "HIGH")>>
                ELSE IF intensity > T.emission_intensity_medium
                THEN <<NotificationDetail("EMISSION_EFFICIENCY", "MEDIUM")>>
                ELSE <<>>)
            \o (IF input_data.idle_time_hours > T.idle_time_critical
                THEN <<NotificationDetail("IDLE_TIME_ALERT", "CRITICAL")>>
                ELSE IF input_data.idle_time_hours > T.idle_time_warning
                THEN <<NotificationDetail("IDLE_TIME_ALERT", "MEDIUM")>>
                ELSE <<>>)
            \o (IF input_data.total_emissions_kg > 100
                THEN <<NotificationDetail("EMISSION_ALERT", "HIGH")>>
                ELSE <<>>)
            \o (IF input_data.total_fuel_consumed_l > T.fuel_consumption_high
                THEN <<NotificationDetail("EMISSION_EFFICIENCY", "HIGH")>>
                ELSE <<>>)
    IN  IF input_data.status_color = "Green" /\ alerts = <<>>
        THEN <<NotificationDetail("SYSTEM_INFO", "LOW")>>
        ELSE alerts

CountPriority(notifications, priority) ==
    Cardinality({i \in DOMAIN notifications :
                    notifications[i].priority = priority})

\* The current time, in days
Now(store) ==
    LET RECURSIVE Total(_)
        Total(devices) ==
            IF devices = {} THEN 0
            ELSE LET d == CHOOSE d \in devices : TRUE
                 IN  Len(store[d]) + Total(devices \ {d})
    IN  Total(DOMAIN store)

\* Mutant: the new records replace the device's history
save_notification_to_history_Replacing(store, device_id, notifications) ==
    [d \in DOMAIN store \cup {device_id} |->
        IF d = device_id
        THEN [i \in DOMAIN notifications |->
                [timestamp |-> Now(store) + i - 1,
                 notification_type |-> notifications[i].notification_type,
                 priority |-> notifications[i].priority,
                 status |-> "UNREAD"]]
        ELSE store[d]]

\* _save_notification_to_history: the store after the call
save_notification_to_history(store, device_id, notifications) ==
    [d \in DOMAIN store \cup {device_id} |->
        IF d = device_id
        THEN (IF d \in DOMAIN store THEN store[d] ELSE <<>>)
             \o [i \in DOMAIN notifications |->
                    [timestamp |-> Now(store) + i - 1,
                     notification_type |-> notifications[i].notification_type,
                     priority |-> notifications[i].priority,
                     status |-> "UNREAD"]]
        ELSE store[d]]

generate_dashboard_notifications(input_data) ==
    LET notifications == DashboardNotifications(input_data)
        critical_count == CountPriority(notifications, "CRITICAL")
        high_count == CountPriority(notifications, "HIGH")
    IN  [device_id |-> input_data.device_id,
         total_notifications |-> Len(notifications),
         critical_count |-> critical_count,
         high_count |-> high_count,
         medium_count |-> CountPriority(notifications, "MEDIUM"),
         low_count |-> CountPriority(notifications, "LOW"),
         notifications |-> notifications,
         requires_immediate_action |-> critical_count > 0 \/ high_count > 1]

\* The notification type is anomaly_type_map.get(anomaly_type,
\* ANOMALY_DETECTED) and the priority priority_map.get(severity, MEDIUM)
generate_anomaly_notifications(input_data) ==
    [device_id |-> input_data.device_id,
     notification_type |->
        CASE input_data.anomaly_type = "fuel_theft" -> "FUEL_THEFT_ALERT"
          [] input_data.anomaly_type = "emission_inefficient"
                -> "EMISSION_ALERT"
          [] input_data.anomaly_type = "ml_detected" -> "ANOMALY_DETECTED"
          [] input_data.anomaly_type = "excessive_idle" -> "IDLE_TIME_ALERT"
          [] OTHER -> "ANOMALY_DETECTED",
     priority |->
        IF input_data.severity \in {"CRITICAL", "HIGH", "MEDIUM", "LOW"}
        THEN input_data.severity
        ELSE "MEDIUM",
     is_urgent |-> input_data.severity \in {"CRITICAL", "HIGH"}]

RECURSIVE InsertNewestFirst(_, _)
InsertNewestFirst(sorted_records, record) ==
    IF sorted_records = <<>> THEN <<record>>
    ELSE IF record.timestamp > Head(sorted_records).timestamp
    THEN <<record>> \o sorted_records
    ELSE <<Head(sorted_records)>>
            \o InsertNewestFirst(Tail(sorted_records), record)

\* sorted(history, key=lambda x: x['timestamp'], reverse=True): stable
RECURSIVE SortNewestFirst(_)
SortNewestFirst(history) ==
    IF history = <<>> THEN <<>>
    ELSE InsertNewestFirst(SortNewestFirst(SubSeq(history, 1,
                                                  Len(history) - 1)),
                           history[Len(history)])

CountUnread(history) ==
    Cardinality({i \in DOMAIN history : history[i].status = "UNREAD"})

get_notification_history(store, device_id, limit, days) ==
    IF device_id \notin DOMAIN store
    THEN [device_id |-> device_id, total_records |-> 0, unread_count |-> 0,
          notifications |-> <<>>]
    ELSE LET cutoff_date == Now(store) - days
             recent == SelectSeq(store[device_id],
                                 LAMBDA n : n.timestamp >= cutoff_date)
             newest_first == SortNewestFirst(recent)
             history == SubSeq(newest_first, 1, Min(limit, Len(newest_first)))
         IN  [device_id |-> device_id,
              total_records |-> Len(history),
              unread_count |-> CountUnread(history),
              notifications |-> history]

\* get_notification_history_endpoint: the filters are applied to the list the
\* service returned, a filter of None (or "") is none
get_notification_history_endpoint(store, query) ==
    LET history == get_notification_history(store, query.device_id,
                                            query.limit, query.days)
        by_type ==
            IF query.notification_type = None THEN history.notifications
            ELSE SelectSeq(history.notifications,
                           LAMBDA n : n.notification_type
                                        = query.notification_type[1])
        notifications ==
            IF query.priority = None THEN by_type
            ELSE SelectSeq(by_type,
                           LAMBDA n : n.priority = query.priority[1])
    IN  [status_code |-> 200,
         body |-> [device_id |-> history.device_id,
                   total_records |-> Len(notifications),
                   unread_count |-> history.unread_count,
                   notifications |-> notifications]]

\* The loop of mark_notifications_as_read from record i on: the records and
\* the count when it ends.  The loop breaks on "limit and marked_count >=
\* limit", and the limits None and 0 are false in Python.
RECURSIVE MarkFrom(_, _, _, _)
MarkFrom(records, i, marked_count, limit) ==
    IF \/ i > Len(records)
       \/ limit # None /\ limit[1] # 0 /\ marked_count >= limit[1]
    THEN [records |-> records, marked_count |-> marked_count]
    ELSE IF records[i].status = "UNREAD"
    THEN MarkFrom([records EXCEPT ![i].status = "READ"], i + 1,
                  marked_count + 1, limit)
    ELSE MarkFrom(records, i + 1, marked_count, limit)

\* mark_notifications_as_read: the store after the call and the result, whose
\* device_id is None when the key is absent
mark_notifications_as_read(store, device_id, limit) ==
    IF device_id \notin DOMAIN store
    THEN [store |-> store,
          result |-> [status |-> "success", marked_count |-> 0,
                      device_id |-> None]]
    ELSE LET marked == MarkFrom(store[device_id], 1, 0, limit)
         IN  [store |-> [store EXCEPT ![device_id] = marked.records],
              result |-> [status |-> "success",
                          marked_count |-> marked.marked_count,
                          device_id |-> Some(device_id)]]

\* mark_as_read_endpoint: result['device_id'] of a result without that key
\* raises KeyError, answered with status 500
mark_as_read_endpoint(result) ==
    IF result.device_id = None
    THEN [status_code |-> 500, body |-> [detail |-> "'device_id'"]]
    ELSE [status_code |-> 200,
          body |-> [status |-> result.status,
                    device_id |-> result.device_id[1],
                    marked_count |-> result.marked_count]]

NotificationDevices == {1, 2}

\* Dashboard metrics of device 1: a good day, a quiet day under a yellow
\* status, a theft with critical idle time, and high emissions and fuel use
DashboardNotificationInputs ==
    {[device_id |-> 1, total_emissions_kg |-> 0,
      emission_intensity_gco2_km |-> 0, idle_time_hours |-> 0,
      status_color |-> "Green", total_fuel_consumed_l |-> 0,
      total_distance_km |-> 0, has_theft_alert |-> FALSE],
     [device_id |-> 1, total_emissions_kg |-> 0,
      emission_intensity_gco2_km |-> 0, idle_time_hours |-> 4,
      status_color |-> "Yellow", total_fuel_consumed_l |-> 0,
      total_distance_km |-> 0, has_theft_alert |-> FALSE],
     [device_id |-> 1, total_emissions_kg |-> 0,
      emission_intensity_gco2_km |-> 0, idle_time_hours |-> 25,
      status_color |-> "Red", total_fuel_consumed_l |-> 0,
      total_distance_km |-> 0, has_theft_alert |-> TRUE],
     [device_id |-> 1, total_emissions_kg |-> 120,
      emission_intensity_gco2_km |-> 250, idle_time_hours |-> 0,
      status_color |-> "Green", total_fuel_consumed_l |-> 60,
      total_distance_km |-> 100, has_theft_alert |-> FALSE]}

\* Anomaly results: a fuel theft on either device, and on device 2 an anomaly
\* type and a severity the maps do not know
AnomalyNotificationInputs ==
    {[device_id |-> d, anomaly_type |-> "fuel_theft",
      severity |-> "CRITICAL"] : d \in NotificationDevices}
    \cup {[device_id |-> 2, anomaly_type |-> "tyre_pressure",
           severity |-> "SEVERE"]}

\* POST /dashboard
GenerateDashboardNotification ==
    /\ Idle
    /\ \E input_data \in DashboardNotificationInputs :
        LET output == generate_dashboard_notifications(input_data)
        IN  /\ Now(notification_history) + output.total_notifications
                    <= MaxStored
            /\ request' = [op |-> "generate_dashboard_notifications",
                           device_id |-> input_data.device_id,
                           input_data |-> input_data]
            /\ response' = [status_code |-> 200, body |-> output]
            /\ notification_history' =
                    save_notification_to_history(notification_history,
                                                 input_data.device_id,
                                                 output.notifications)
            /\ UNCHANGED <<files, models_cache>>

\* POST /anomaly
GenerateAnomalyNotification ==
    /\ Idle
    /\ \E input_data \in AnomalyNotificationInputs :
        LET output == generate_anomaly_notifications(input_data)
        IN  /\ Now(notification_history) + 1 <= MaxStored
            /\ request' = [op |-> "generate_anomaly_notifications",
                           device_id |-> input_data.device_id,
                           input_data |-> input_data]
            /\ response' = [status_code |-> 200, body |-> output]
            /\ notification_history' =
                    save_notification_to_history(
                        notification_history, input_data.device_id,
                        <<NotificationDetail(output.notification_type,
                                             output.priority)>>)
            /\ UNCHANGED <<files, models_cache>>

\* GET /history/{device_id}, with limit and days (limit 1..1000, days 1..90)
\* and a notification_type or priority filter
GetNotificationHistory ==
    /\ Idle
    /\ \E device_id \in NotificationDevices,
          window \in {<<50, 7>>, <<1, 7>>, <<50, 1>>},
          filter \in {<<None, None>>, <<Some("FUEL_THEFT_ALERT"), None>>,
                      <<None, Some("LOW")>>} :
        /\ request' = [op |-> "get_notification_history",
                       device_id |-> device_id,
                       limit |-> window[1], days |-> window[2],
                       notification_type |-> filter[1],
                       priority |-> filter[2]]
        /\ response' =
                get_notification_history_endpoint(
                    notification_history,
                    [device_id |-> device_id,
                     limit |-> window[1], days |-> window[2],
                     notification_type |-> filter[1],
                     priority |-> filter[2]])
        /\ UNCHANGED <<files, models_cache, notification_history>>

\* POST /mark-as-read/{device_id}
MarkAsRead ==
    /\ Idle
    /\ \E device_id \in NotificationDevices,
          limit \in {None, Some(0), Some(1)} :
        LET marked == mark_notifications_as_read(notification_history,
                                                 device_id, limit)
        IN  /\ request' = [op |-> "mark_notifications_as_read",
                           device_id |-> device_id, limit |-> limit]
            /\ response' = mark_as_read_endpoint(marked.result)
            /\ notification_history' = marked.store
            /\ UNCHANGED <<files, models_cache>>

NotificationInit ==
    /\ files = NoFiles
    /\ models_cache = EmptyCache
    /\ request = NoCall
    /\ response = NoCall
    /\ notification_history = NoHistory

NotificationNext ==
    \/ GenerateDashboardNotification
    \/ GenerateAnomalyNotification
    \/ GetNotificationHistory
    \/ MarkAsRead
    \/ Return

NotificationSpec == NotificationInit /\ [][NotificationNext]_vars

----------------------------------------------------------------------------
\* What the claims speak of, read from the call and the cache

Served(op) == request.op = op

\* The parameters the call being served worked with: the cached parameter
\* file when there is one (a call that loads the file caches it), else none.
ParamsOverride(key) ==
    /\ ParamsFileName \in DOMAIN models_cache
    /\ key \in DOMAIN models_cache[ParamsFileName]

UsedFuelTheftThreshold ==
    IF ParamsOverride("fuel_theft_threshold")
    THEN models_cache[ParamsFileName].fuel_theft_threshold
    ELSE 0 - 5

UsedIdleThreshold ==
    IF ParamsOverride("excessive_idle_threshold")
    THEN models_cache[ParamsFileName].excessive_idle_threshold
    ELSE 120

\* fuel_delta < threshold AND speed == 0 AND distance_delta < 0.1
TheftFlag ==
    /\ request.input.fuel_delta < UsedFuelTheftThreshold
    /\ request.input.speed = 0
    /\ request.input.distance_delta < 2

\* The scorer answered and flagged the record as an outlier
OutlierFlag == ~request.scorer.raises /\ request.scorer.prediction = 0 - 1

\* co2_intensity > 150 + 2 * 50 g/km
InefficientFlag == request.input.co2_intensity > 5

FlagCount ==
    (IF TheftFlag THEN 1 ELSE 0) + (IF OutlierFlag THEN 1 ELSE 0)
        + (IF InefficientFlag THEN 1 ELSE 0)

Triggered ==
    (IF TheftFlag THEN {"fuel_theft"} ELSE {})
        \cup (IF OutlierFlag THEN {"ml_detected"} ELSE {})
        \cup (IF InefficientFlag THEN {"emission_inefficient"} ELSE {})

IsTriggered(t) == t \in Triggered

CriticalRule == TheftFlag /\ response.details.fuel_theft.risk_score > 70

HighRule ==
    FlagCount >= 2 \/ (OutlierFlag /\ response.anomaly_score < 0 - 5)

----------------------------------------------------------------------------
\* Claims

C2_HighRuleAsStated ==
    (Served("predict_anomaly") /\ ~CriticalRule /\ HighRule)
        => response.severity = "HIGH"

\* C2 as amended: where the CRITICAL rule does not apply and the outlier flag is
\* true, severity is HIGH when anomaly_score >= -0.5 (two true flags included)
\* and CRITICAL when anomaly_score < -0.5.
C2_OutlierSeverity ==
    (Served("predict_anomaly") /\ ~CriticalRule /\ OutlierFlag)
        => response.severity =
              IF response.anomaly_score >= 0 - 5 THEN "HIGH" ELSE "CRITICAL"

C2_Witness ==
    /\ Served("predict_anomaly")
    /\ ~TheftFlag
    /\ OutlierFlag
    /\ InefficientFlag
    /\ response.anomaly_score = 0 - 5
    /\ response.severity = "HIGH"

\* C3 as stated: with exactly one flag true and neither the CRITICAL nor the
\* HIGH rule applying, severity is MEDIUM.
C3_MediumRuleAsStated ==
    (Served("predict_anomaly") /\ FlagCount = 1 /\ ~CriticalRule /\ ~HighRule)
        => response.severity = "MEDIUM"

\* C3 as amended: with the emission-inefficiency flag the only true flag,
\* severity is MEDIUM for every anomaly score.
C3_InefficiencyAloneIsMedium ==
    (Served("predict_anomaly") /\ FlagCount = 1 /\ InefficientFlag)
        => response.severity = "MEDIUM"

C3_Witness ==
    /\ Served("predict_anomaly")
    /\ FlagCount = 1
    /\ InefficientFlag
    /\ response.anomaly_score = 0 - 6
    /\ response.severity = "MEDIUM"

\* C4: is_anomaly is true exactly when anomaly_types is non-empty, and severity
\* is LOW exactly when no detection flag is true, for every anomaly score.
C4_AnomalyIffTypesLowIffNoFlag ==
    Served("predict_anomaly")
        => /\ response.is_anomaly <=> response.anomaly_types # <<>>
           /\ response.severity = "LOW" <=> FlagCount = 0

C4_Witness ==
    /\ Served("predict_anomaly")
    /\ FlagCount = 0
    /\ response.anomaly_score = 0 - 6
    /\ ~response.is_anomaly
    /\ response.severity = "LOW"

\* C5 as stated: anomaly_types holds each triggered rule name once, in the
\* order fuel_theft, emission_inefficient, ml_detected, excessive_idle.
C5_TypesInSpecOrder ==
    Served("predict_anomaly")
        => response.anomaly_types =
              SelectSeq(<<"fuel_theft", "emission_inefficient", "ml_detected",
                          "excessive_idle">>, IsTriggered)

\* C5 as amended: anomaly_types holds each triggered rule name once, in the
\* order fuel_theft, ml_detected, emission_inefficient.
C5_TypesInAppendOrder ==
    Served("predict_anomaly")
        => response.anomaly_types =
              SelectSeq(<<"fuel_theft", "ml_detected", "emission_inefficient">>,
                        IsTriggered)

C5_Witness ==
    /\ Served("predict_anomaly")
    /\ FlagCount = 3
    /\ response.anomaly_types =
          <<"fuel_theft", "ml_detected", "emission_inefficient">>

\* clamp(n/3, 0.3, 1.0), then +0.3 capped at 1.0 when anomaly_score < -0.3
ClampThenBoost(n, anomaly_score) ==
    LET clamped == Max(90, Min(300, 100 * n))
    IN  IF anomaly_score < 0 - 3 THEN Min(300, clamped + 90) ELSE clamped

\* min(1, n/3), then +0.3 capped at 1.0 when anomaly_score < -0.3, then the
\* floor of 0.3
BoostThenFloor(n, anomaly_score) ==
    LET capped == Min(300, 100 * n)
    IN  Max(90, IF anomaly_score < 0 - 3 THEN Min(300, capped + 90) ELSE capped)

\* C6 as stated: confidence is clamp(n/3, 0.3, 1.0) for n true flags, raised by
\* 0.3 and capped at 1.0 when anomaly_score < -0.3, the clamp coming before the
\* boost, and lies in [0, 1] (compared after rounding to two decimals).
C6_ClampBeforeBoost ==
    Served("predict_anomaly")
        => /\ response.confidence =
                 Round2(ClampThenBoost(FlagCount, response.anomaly_score))
           /\ response.confidence \in 0..100

\* C6 as amended: confidence is min(1, n/3), raised by 0.3 and capped at 1.0
\* when anomaly_score < -0.3, then floored at 0.3 after the boost and rounded to
\* two decimals; it lies in [0.3, 1].
C6_FloorAfterBoost ==
    Served("predict_anomaly")
        => /\ response.confidence =
                 Round2(BoostThenFloor(FlagCount, response.anomaly_score))
           /\ response.confidence \in 30..100

C6_Witness ==
    /\ Served("predict_anomaly")
    /\ FlagCount = 0
    /\ response.anomaly_score < 0 - 3
    /\ response.confidence = 30

\* C7: when the outlier scorer fails, predict_anomaly still returns a verdict:
\* anomaly_score is 0.0, ml_detected is not among the types, the rule-based
\* flags are what the rules alone give, and confidence gets no boost.
C7_ScorerFailureFallsBack ==
    (Served("predict_anomaly") /\ request.scorer.raises)
        => /\ response.anomaly_score = 0
           /\ response.details.ml_anomaly.is_anomaly_ml = FALSE
           /\ \A i \in 1..Len(response.anomaly_types) :
                 response.anomaly_types[i] # "ml_detected"
           /\ response.anomaly_types =
                 SelectSeq(<<"fuel_theft", "emission_inefficient">>, IsTriggered)
           /\ response.confidence =
                 Round2(Max(90, Min(300, 100 * Len(response.anomaly_types))))

C7_Witness ==
    /\ Served("predict_anomaly")
    /\ request.scorer.raises
    /\ TheftFlag
    /\ InefficientFlag
    /\ response.anomaly_types = <<"fuel_theft", "emission_inefficient">>
    /\ response.confidence = 67

\* C8: detect_fuel_theft reports theft if and only if fuel_delta < threshold
\* and speed = 0 and distance_delta < 0.1, the threshold being -5.0 L unless a
\* parameter file overrides it; a drop of exactly the threshold is not theft.
C8_FuelTheftRule ==
    Served("detect_fuel_theft")
        => (response.is_fuel_theft <=> TheftFlag)

C8_Witness ==
    /\ Served("detect_fuel_theft")
    /\ ParamsFileName \notin DOMAIN models_cache
    /\ request.input.fuel_delta = 0 - 5
    /\ request.input.speed = 0
    /\ request.input.distance_delta = 0
    /\ ~response.is_fuel_theft

\* C9: risk_score is min(1, |fuel_delta| / |threshold|) when fuel_delta <
\* threshold and 0 otherwise; it is a function of fuel_delta and the threshold
\* alone, whatever speed, distance_delta and the theft flag are.
C9_RiskScoreFormula ==
    Served("detect_fuel_theft")
        => response.risk_score =
              IF request.input.fuel_delta < UsedFuelTheftThreshold
              THEN Min(100, (Abs(request.input.fuel_delta) * 100)
                                \div Abs(UsedFuelTheftThreshold))
              ELSE 0

C9_Witness ==
    /\ Served("detect_fuel_theft")
    /\ request.input.fuel_delta = 0 - 7
    /\ request.input.speed = 0
    /\ request.input.distance_delta = 3
    /\ ~response.is_fuel_theft
    /\ response.risk_score = 100

\* C10: detect_excessive_idle reports excessive idle if and only if the daily
\* idle minutes are strictly greater than the threshold (120 by default), and
\* excess_time = max(0, minutes - threshold); the flag is true exactly when
\* excess_time > 0.
C10_ExcessiveIdleRule ==
    Served("detect_excessive_idle")
        => /\ response.is_excessive
                 <=> request.input.idle_duration_daily > UsedIdleThreshold
           /\ response.details.excess_time =
                 Max(0, request.input.idle_duration_daily - UsedIdleThreshold)
           /\ response.is_excessive <=> response.details.excess_time > 0

C10_Witness ==
    /\ Served("detect_excessive_idle")
    /\ ParamsFileName \notin DOMAIN models_cache
    /\ request.input.idle_duration_daily = 180
    /\ response.is_excessive
    /\ response.details.excess_time = 60

C12_InefficiencyNeedsPositiveStd ==
    Served("detect_emission_inefficiency")
        => /\ response.is_inefficient
                 <=> /\ response.details.std > 0
                     /\ request.input.co2_intensity
                           > response.details.mean + 2 * response.details.std
           /\ request.input.co2_intensity_std = Some(0)
                 => /\ ~response.is_inefficient
                    /\ response.details.deviation = 0

TagPositions(toks) ==
    {i \in 1..Len(toks) :
        /\ i + 2 <= Len(toks)
        /\ toks[i] = LT
        /\ IsWord(toks[i + 1])
        /\ toks[i + 2] = GT
        /\ NextLT(toks, i + 3) # 0}

\* The text between the ">" of the tag at position i and the next "<"
ValueAt(toks, i) == SubSeq(toks, i + 3, NextLT(toks, i + 3) - 1)

\* The tag at position i occurs once in the payload
OccursOnce(toks, i) ==
    \A k \in TagPositions(toks) : toks[k + 1] = toks[i + 1] => k = i

\* C14: parse_other_string decodes every tag of a payload <t1>v1<t2>v2<...:
\* wherever <ignition>true< occurs, in any letter case of the value, the
\* decoded ignition is true, and wherever <foo>12.5< occurs the decoded foo is
\* the float 12.5 (tags that occur once, so no later occurrence overrides).
C14_EveryTagDecoded ==
    Served("parse_other_string")
        => \A i \in TagPositions(request.other_str) :
              LET toks == request.other_str
                  tag == toks[i + 1]
              IN  OccursOnce(toks, i)
                    => /\ tag \in DOMAIN response.data
                       /\ (tag = "ignition"
                            /\ ValueAt(toks, i) \in {<<"true">>, <<"TRUE">>})
                             => response.data[tag] = [bool |-> TRUE]
                       /\ (tag = "foo" /\ ValueAt(toks, i) = <<"12.5">>)
                             => response.data[tag] = [float |-> 125]

\* The decoded map of the one item of the history being processed
DecodedOther == parse_other_string(request.items[1].items[1].other)

\* first / divisor when the first tag is present, else second / divisor when
\* the second is, else null
FirstAvailable(d, first, second, divisor) ==
    IF first \in DOMAIN d THEN Some(d[first].float \div divisor)
    ELSE IF second \in DOMAIN d THEN Some(d[second].float \div divisor)
    ELSE None

\* C15: process_history_data resolves odometer_km as io87 / 1000 whenever io87
\* is in the decoded map, as io24 / 1000 only when io87 is absent, and as null
\* when both are absent; fuel_level_l likewise from io85, then io115, divided
\* by 10; this for every numeric value of the first tag.
C15_FirstAvailableWins ==
    Served("process_history_data")
        => /\ response.rows[1].odometer_km
                 = FirstAvailable(DecodedOther, "io87", "io24", 1000)
           /\ response.rows[1].fuel_level_l
                 = FirstAvailable(DecodedOther, "io85", "io115", 10)

\* Sample j of a frame comes before sample i of the same device in ascending
\* timestamp order (samples of one instant in the order of the frame)
ComesBefore(frame, j, i) ==
    /\ frame[j].device_id = frame[i].device_id
    /\ \/ frame[j].timestamp < frame[i].timestamp
       \/ frame[j].timestamp = frame[i].timestamp /\ j < i

\* The sample immediately preceding sample i of the same device, 0 when
\* sample i is the first of its device
Preceding(frame, i) ==
    LET earlier == {j \in DOMAIN frame : ComesBefore(frame, j, i)}
    IN  IF earlier = {} THEN 0
        ELSE CHOOSE j \in earlier :
                \A k \in earlier : k = j \/ ComesBefore(frame, k, j)

Ascending(frame) ==
    \A i, j \in DOMAIN frame : i < j => ~RowBefore(frame[j], frame[i])

\* A device's samples are supplied out of ascending timestamp order
OutOfOrder(df) ==
    \E i, j \in DOMAIN df :
        /\ i < j
        /\ df[i].device_id = df[j].device_id
        /\ df[i].timestamp > df[j].timestamp

\* The odometer difference between sample i and the sample before it, None
\* when there is no sample before it or an odometer reading is missing
OdometerStep(frame, i) ==
    LET j == Preceding(frame, i)
    IN  IF j = 0 THEN None
        ELSE IF frame[i].odometer_km = None \/ frame[j].odometer_km = None
        THEN None
        ELSE Some(frame[i].odometer_km[1] - frame[j].odometer_km[1])

FuelStep(frame, i) ==
    LET j == Preceding(frame, i)
    IN  IF j = 0 THEN None
        ELSE IF frame[i].fuel_level_l = None \/ frame[j].fuel_level_l = None
        THEN None
        ELSE Some(frame[i].fuel_level_l[1] - frame[j].fuel_level_l[1])

\* C16: in prepare_anomaly_detection_data, for a batch that mixes devices in
\* any input order, each sample's time, distance and fuel deltas are computed
\* (within their clamps) against the immediately preceding sample of the same
\* device in ascending timestamp order, and the first sample of every device
\* has distance_delta, fuel_delta, idle_duration, fuel_consumption_rate and
\* co2_intensity 0.
C16_DeltasAgainstPrecedingSample ==
    Served("process_anomaly_detection_pipeline")
        => /\ Len(response.df) = Len(request.df)
           /\ \A i \in DOMAIN response.df :
                LET row == response.df[i]
                    j == Preceding(response.df, i)
                IN  IF j = 0
                    THEN /\ row.time_delta = 0
                         /\ row.distance_delta = 0
                         /\ row.fuel_delta = 0
                         /\ row.idle_duration = 0
                         /\ row.fuel_consumption_rate = 0
                         /\ row.co2_intensity = 0
                    ELSE /\ row.time_delta =
                               Max(0, Min(row.timestamp - response.df[j].timestamp,
                                          1440))
                         /\ row.distance_delta =
                               IF OdometerStep(response.df, i) = None THEN 0
                               ELSE Max(0, Min(OdometerStep(response.df, i)[1],
                                               200))
                         /\ row.fuel_delta =
                               IF FuelStep(response.df, i) = None THEN 0
                               ELSE Max(0 - 50, Min(FuelStep(response.df, i)[1],
                                                    50))

C16_Witness ==
    /\ Served("process_anomaly_detection_pipeline")
    /\ Len(request.df) = 3
    /\ request.df[1].device_id = 1 /\ request.df[1].timestamp = 1500
    /\ request.df[2].device_id = 2
    /\ request.df[3].device_id = 1 /\ request.df[3].timestamp = 30
    /\ response.df[1].timestamp = 30 /\ response.df[1].time_delta = 0
    /\ response.df[2].timestamp = 1500 /\ response.df[2].time_delta = 1440
    /\ response.df[2].distance_delta = 10
    /\ response.df[2].fuel_delta = 0 - 50
    /\ response.df[3].device_id = 2 /\ response.df[3].distance_delta = 0

\* The frame prepare_raw_data hands to aggregate_to_hourly
PreparedRaw == prepare_raw_data(request.df)

\* The same step over a frame whose odometer column has no missing value
RawOdometerStep(frame, i) ==
    frame[i].odometer_km - frame[Preceding(frame, i)].odometer_km

\* C17 (as stated): for two consecutive samples of a device, distance_delta
\* is 0 whenever the odometer difference is negative or exceeds 200 km, and is
\* never negative.
C17_GlitchesFlooredToZero ==
    /\ Served("process_anomaly_detection_pipeline")
          => \A i \in DOMAIN response.df :
                /\ response.df[i].distance_delta >= 0
                /\ (/\ OdometerStep(response.df, i) # None
                    /\ \/ OdometerStep(response.df, i)[1] < 0
                       \/ OdometerStep(response.df, i)[1] > 200)
                      => response.df[i].distance_delta = 0
    /\ Served("process_raw_data_pipeline")
          => \A i \in DOMAIN PreparedRaw :
                /\ PreparedRaw[i].distance_delta >= 0
                /\ (/\ Preceding(PreparedRaw, i) # 0
                    /\ \/ RawOdometerStep(PreparedRaw, i) < 0
                       \/ RawOdometerStep(PreparedRaw, i) > 200)
                      => PreparedRaw[i].distance_delta = 0

\* C17: for two consecutive samples of a device, distance_delta is never
\* negative and is 0 when the odometer difference is negative; a difference
\* above 200 km becomes 200 in prepare_anomaly_detection_data and is kept as
\* it is in prepare_raw_data.
C17_DistanceClamped ==
    /\ Served("process_anomaly_detection_pipeline")
          => \A i \in DOMAIN response.df :
                /\ response.df[i].distance_delta >= 0
                /\ OdometerStep(response.df, i) # None
                      => LET step == OdometerStep(response.df, i)[1]
                         IN  response.df[i].distance_delta =
                                IF step < 0 THEN 0
                                ELSE IF step > 200 THEN 200
                                ELSE step
    /\ Served("process_raw_data_pipeline")
          => \A i \in DOMAIN PreparedRaw :
                /\ PreparedRaw[i].distance_delta >= 0
                /\ Preceding(PreparedRaw, i) # 0
                      => LET step == RawOdometerStep(PreparedRaw, i)
                         IN  PreparedRaw[i].distance_delta =
                                IF step < 0 THEN 0 ELSE step

C17_Witness ==
    /\ Served("process_anomaly_detection_pipeline")
    /\ Len(response.df) = 2
    /\ OdometerStep(response.df, 2) = Some(400)
    /\ response.df[2].distance_delta = 200

\* C18 (as stated): when a device's samples are supplied out of ascending
\* timestamp order the pipeline signals an error and produces no derived
\* features.
C18_OutOfOrderRejected ==
    (/\ \/ Served("process_anomaly_detection_pipeline")
        \/ Served("process_raw_data_pipeline")
     /\ OutOfOrder(request.df))
        => Len(response.df) = 0

\* C18: when a device's samples are supplied out of ascending timestamp
\* order the pipeline sorts them by device and timestamp itself and produces
\* the derived features of every sample, in ascending order.
C18_OutOfOrderIsSorted ==
    (Served("process_anomaly_detection_pipeline") /\ OutOfOrder(request.df))
        => /\ Len(response.df) = Len(request.df)
           /\ Ascending(response.df)
           /\ \A i \in DOMAIN request.df :
                \E k \in DOMAIN response.df :
                    /\ response.df[k].device_id = request.df[i].device_id
                    /\ response.df[k].timestamp = request.df[i].timestamp
                    /\ response.df[k].odometer_km = request.df[i].odometer_km
                    /\ response.df[k].fuel_level_l = request.df[i].fuel_level_l

C18_Witness ==
    /\ Served("process_anomaly_detection_pipeline")
    /\ Len(request.df) = 2
    /\ request.df[1].device_id = 1 /\ request.df[1].timestamp = 30
    /\ request.df[2].device_id = 1 /\ request.df[2].timestamp = 0
    /\ response.df[1].timestamp = 0
    /\ response.df[2].timestamp = 30 /\ response.df[2].time_delta = 30

\* C19: every record of prepare_anomaly_detection_data has distance_delta in
\* [0, 200], fuel_delta in [-50, 50], idle_duration in [0, 1440], engine_load
\* in [0, 100], fuel_consumption_rate in [0, 2] and co2_intensity in
\* [0, 1000], and fuel_consumption_rate and co2_intensity are 0 whenever
\* distance_delta is 0.
C19_FeaturesInRange ==
    Served("process_anomaly_detection_pipeline")
        => \A i \in DOMAIN response.df :
              LET row == response.df[i]
              IN  /\ row.distance_delta \in 0..200
                  /\ row.fuel_delta \in (0 - 50)..50
                  /\ row.idle_duration \in 0..1440
                  /\ row.engine_load \in 0..100
                  /\ row.fuel_consumption_rate \in 0..200
                  /\ row.co2_intensity \in 0..1000
                  /\ row.distance_delta = 0
                        => /\ row.fuel_consumption_rate = 0
                           /\ row.co2_intensity = 0

C19_Witness ==
    /\ Served("process_anomaly_detection_pipeline")
    /\ Len(response.df) = 3
    /\ response.df[2].distance_delta = 10
    /\ response.df[2].fuel_delta = 0 - 50
    /\ response.df[2].fuel_consumption_rate = 200
    /\ response.df[2].co2_intensity = 1000
    /\ response.df[3].idle_duration = 1440
    /\ response.df[3].engine_load = 0
    /\ response.df[3].rpm = Some(0 - 100)
    /\ response.df[3].odometer_km = None

\* The idle minutes of a prepared record: the time since the device's
\* preceding sample when the record is idle, else 0
IdleMinutes(row) == IF row.is_idle = 1 THEN row.time_delta ELSE 0

RECURSIVE IdleMinutesOf(_, _)
IdleMinutesOf(frame, rows) ==
    IF rows = {} THEN 0
    ELSE LET i == CHOOSE i \in rows : TRUE
         IN  IdleMinutes(frame[i]) + IdleMinutesOf(frame, rows \ {i})

\* C20: in each hourly row of aggregate_to_hourly, is_idle_total is the sum
\* of the idle minutes of that device's records within that hour, and every
\* prepared record contributes to exactly one (device_id, hour) row.
C20_IdleTotalIsIdleMinutes ==
    Served("process_raw_data_pipeline")
        => /\ \A k \in DOMAIN response.df :
                response.df[k].is_idle_total =
                    IdleMinutesOf(
                        PreparedRaw,
                        {i \in DOMAIN PreparedRaw :
                            /\ PreparedRaw[i].device_id = response.df[k].device_id
                            /\ DateHour(PreparedRaw[i]) = response.df[k].date_hour})
           /\ \A i \in DOMAIN PreparedRaw :
                Cardinality(
                    {k \in DOMAIN response.df :
                        /\ response.df[k].device_id = PreparedRaw[i].device_id
                        /\ response.df[k].date_hour = DateHour(PreparedRaw[i])}) = 1

\* The samples of one device, in the order of the frame
OfDevice(frame, device_id) ==
    SelectSeq(frame, LAMBDA row : row.device_id = device_id)

WithoutEngineLoad(row) == [f \in DOMAIN row \ {"engine_load"} |-> row[f]]

BatchMixesDevices ==
    /\ Served("process_anomaly_detection_pipeline")
    /\ \E i, j \in DOMAIN request.df :
            request.df[i].device_id # request.df[j].device_id

\* C21 (as stated): running prepare_anomaly_detection_data on a batch holding
\* the samples of several devices yields, for each device's records, the same
\* feature values as running it on that device's records alone.
C21_FeaturesIndependentOfOtherDevices ==
    Served("process_anomaly_detection_pipeline")
        => \A d \in DeviceIds :
                OfDevice(response.df, d)
                    = prepare_anomaly_detection_data(OfDevice(request.df, d))

\* C21 (amended): every derived feature of a device's records except
\* engine_load is the same as when the device's records are prepared alone;
\* engine_load is the record's rpm as a percentage of the largest rpm of the
\* whole batch, whatever device reported it.
C21_OnlyEngineLoadIsShared ==
    Served("process_anomaly_detection_pipeline")
        => LET top == SeqMax([k \in DOMAIN request.df |->
                                FillNa(request.df[k].rpm, 0)])
           IN  /\ \A d \in DeviceIds :
                    LET together == OfDevice(response.df, d)
                        alone ==
                            prepare_anomaly_detection_data(
                                OfDevice(request.df, d))
                    IN  [i \in DOMAIN together |->
                            WithoutEngineLoad(together[i])]
                        = [i \in DOMAIN alone |->
                            WithoutEngineLoad(alone[i])]
               /\ \A i \in DOMAIN response.df :
                    response.df[i].engine_load =
                        IF top > 0
                        THEN Max(0, Min((FillNa(response.df[i].rpm, 0) * 100)
                                            \div top, 100))
                        ELSE 0

C21_Witness ==
    /\ BatchMixesDevices
    /\ Len(request.df) = 3
    /\ Len(OfDevice(response.df, 1)) = 2
    /\ OfDevice(response.df, 1)[2].time_delta = 30
    /\ OfDevice(response.df, 1)[2].engine_load = 40
    /\ prepare_anomaly_detection_data(OfDevice(request.df, 1))[2].engine_load
            = 100

\* ---- The dashboard claims ----

\* Today's records of the history being served, in the order of the loop
TodayRows ==
    sorted_history(filter_history_by_date(DashboardRows(request.items), Today))

\* The locals of calculate_dashboard_metrics after the first k records
Locals(k) == LoopAfter(TodayRows, k)

FinalLocals == Locals(Len(TodayRows))

Metrics == response.metrics

TheftReported == "Theft alert detected" \in Metrics.status_reason

Opens(row) == row.status \in {Some("Idle"), Some("Start")}

Closes(row) == row.status \in {Some("Drive"), Some("End")}

\* The last Drive or End record of the day, 0 when there is none
LastClose ==
    LET closing == {k \in DOMAIN TodayRows : Closes(TodayRows[k])}
    IN  IF closing = {} THEN 0
        ELSE CHOOSE k \in closing : \A j \in closing : j <= k

\* The record that opened the idle period still open at the end of the
\* history: the first Idle or Start after the last Drive or End, 0 when none
OpenStart ==
    LET opening == {k \in DOMAIN TodayRows : k > LastClose /\ Opens(TodayRows[k])}
    IN  IF opening = {} THEN 0
        ELSE CHOOSE k \in opening : \A j \in opening : k <= j

\* C22: the status colour is Red exactly when the reported idle time exceeds
\* 2 hours or a theft alert is present, Yellow exactly when the reported idle
\* time is above 30 minutes but not above 2 hours with no theft alert, Green
\* otherwise; the reported idle_time_hours is the accumulated idle minutes
\* divided by 60.
C22_ColourFollowsReportedIdleTime ==
    Served("dashboard_metrics")
        => LET hours == Metrics.idle_time_hours
           IN  /\ Metrics.status_color = "Red"
                    <=> (hours > 200 \/ TheftReported)
               /\ Metrics.status_color = "Yellow"
                    <=> (hours > 50 /\ hours <= 200 /\ ~TheftReported)
               /\ Metrics.status_color = "Green"
                    <=> (hours <= 50 /\ ~TheftReported)
               /\ hours = RoundDiv(Metrics.details.idle_time_minutes * 100, 60)

\* C23: when the day's last idle period is still open at the end of the
\* history (Idle or Start with no later Drive or End), the reported idle time
\* includes the time from that period's start up to the current time.
C23_OpenIdlePeriodCounted ==
    Served("dashboard_metrics") /\ OpenStart # 0
        => Metrics.details.idle_time_minutes
                >= request.now - TodayRows[OpenStart].timestamp[1].minute

\* C24: total_emissions_kg is the day's total fuel consumed in litres times
\* 2.68, the fuel consumed being the sum over consecutive records of the
\* positive fuel-level drops below 100 L, and emission_intensity_gco2_km is
\* the total emissions (kg) times 1000 over the total distance (km), or 0 when
\* the distance is 0.
C24_EmissionsFromFuel ==
    Served("dashboard_metrics")
        => LET fuel == FinalLocals.total_fuel_consumed_l
               distance == FinalLocals.total_distance_km
           IN  /\ Metrics.total_emissions_kg = fuel * 268
               /\ Metrics.emission_intensity_gco2_km =
                    IF distance = 0 THEN 0
                    ELSE RoundDiv(fuel * 268 * 1000, distance)

\* C29: while the loop goes over the day's records in ascending timestamp
\* order at most one idle period is open: it opens at the first Idle or Start
\* seen while none is open, later Idle or Start records do not move its start,
\* the next Drive or End closes it, adds max(0, end - start) minutes to the
\* total and leaves none open; the total never decreases and is never negative.
C29_OneIdlePeriodAtATime ==
    Served("dashboard_metrics")
        => LET rows == TodayRows
           IN  \A k \in DOMAIN rows :
            LET before == LoopAfter(rows, k - 1)
                row == rows[k]
                after == LoopBody(before, row)
                at == row.timestamp[1].minute
            IN  /\ k > 1 => rows[k - 1].timestamp[1].minute <= at
                /\ before.total_idle_minutes >= 0
                /\ after.total_idle_minutes >= before.total_idle_minutes
                /\ Opens(row) /\ before.idle_period_start = None
                    => /\ after.idle_period_start # None
                       /\ after.idle_period_start[1].minute = at
                       /\ after.total_idle_minutes = before.total_idle_minutes
                /\ Opens(row) /\ before.idle_period_start # None
                    => /\ after.idle_period_start = before.idle_period_start
                       /\ after.total_idle_minutes = before.total_idle_minutes
                /\ Closes(row) /\ before.idle_period_start # None
                    => /\ after.idle_period_start = None
                       /\ after.total_idle_minutes =
                            before.total_idle_minutes
                                + Max(0, at - before.idle_period_start[1].minute)
                /\ ~Opens(row) /\ before.idle_period_start = None
                    => /\ after.idle_period_start = None
                       /\ after.total_idle_minutes = before.total_idle_minutes
                /\ ~Opens(row) /\ ~Closes(row)
                    => after.idle_period_start = before.idle_period_start

\* Idle at 00:00, Start at 00:36, Drive at 03:00: one period of 180 minutes
C29_Witness ==
    /\ Served("dashboard_metrics")
    /\ Len(TodayRows) = 3
    /\ TodayRows[1].status = Some("Idle")
    /\ TodayRows[2].status = Some("Start")
    /\ TodayRows[2].timestamp[1].minute = 36
    /\ TodayRows[3].status = Some("Drive")
    /\ Locals(2).idle_period_start # None
    /\ Locals(2).idle_period_start[1].minute = 0
    /\ FinalLocals.idle_period_start = None
    /\ Metrics.details.idle_time_minutes = 180

\* C30: for every history produced by process_history_data (status Drive,
\* Idle, Start, End, Ack or null) calculate_dashboard_metrics raises no theft
\* alert: has_theft_alert stays false, and the status is Red only when the
\* accumulated idle time is above 120 minutes.
C30_NoTheftAlertFromHistory ==
    Served("dashboard_metrics")
        => /\ ~FinalLocals.has_theft_alert
           /\ ~TheftReported
           /\ Metrics.status_color = "Red"
                => Metrics.details.idle_time_minutes > 120

C30_Witness ==
    /\ Served("dashboard_metrics")
    /\ \E k \in DOMAIN TodayRows : TodayRows[k].status = Some("Ack")
    /\ Metrics.status_color = "Red"
    /\ Metrics.status_reason = {"Idle time > 2 jam"}
    /\ Metrics.details.idle_time_minutes = 180

\* ---- The notification claims ----

\* A call is made in this step
Calls(op) == Idle /\ request'.op = op

\* The records of a device, none for a device without history
RecordsOf(store, device_id) ==
    IF device_id \in DOMAIN store THEN store[device_id] ELSE <<>>

\* The records of a device that this step changes from UNREAD to READ
MarkedInStep(device_id) ==
    {i \in DOMAIN RecordsOf(notification_history, device_id) :
        /\ notification_history[device_id][i].status = "UNREAD"
        /\ notification_history'[device_id][i].status = "READ"}

\* C25: mark_notifications_as_read(device_id, limit) changes at most limit
\* stored records of the device from UNREAD to READ, for every integer limit,
\* and every UNREAD record when limit is None; the returned marked_count is the
\* number of records that changed, records already READ not being counted.
C25_MarksAtMostLimit ==
    [][Calls("mark_notifications_as_read")
            /\ request'.device_id \in DOMAIN notification_history
        => LET device_id == request'.device_id
               limit == request'.limit
               changed == Cardinality(MarkedInStep(device_id))
           IN  /\ limit # None => changed <= limit[1]
               /\ limit = None
                    => CountUnread(notification_history'[device_id]) = 0
               /\ response'.status_code = 200
               /\ response'.body.marked_count = changed]_vars

\* One device's history grows at its end only, and its records change in
\* nothing but their status, from UNREAD to READ
Extends(old, new) ==
    /\ Len(new) >= Len(old)
    /\ \A i \in DOMAIN old :
        /\ new[i].timestamp = old[i].timestamp
        /\ new[i].notification_type = old[i].notification_type
        /\ new[i].priority = old[i].priority
        /\ old[i].status = "READ" => new[i].status = "READ"
    /\ \A i \in DOMAIN new \ DOMAIN old : new[i].status = "UNREAD"

\* C26: across any sequence of generate_dashboard_notifications,
\* generate_anomaly_notifications, get_notification_history and
\* mark_notifications_as_read calls every device's history is append-only and
\* its read status monotonic: no record is removed or reordered, every record
\* is created UNREAD, READ never becomes UNREAD again, and an operation for
\* one device_id leaves the history of every other device unchanged.
C26_HistoryAppendOnly ==
    [][/\ DOMAIN notification_history \subseteq DOMAIN notification_history'
       /\ \A d \in DOMAIN notification_history' :
            Extends(RecordsOf(notification_history, d),
                    notification_history'[d])
       /\ \A d \in NotificationDevices :
            (~Idle' /\ d # request'.device_id)
                => /\ d \in DOMAIN notification_history'
                        <=> d \in DOMAIN notification_history
                   /\ RecordsOf(notification_history', d)
                        = RecordsOf(notification_history, d)]_vars

\* Device 1 holds a record that was read and two later ones that were not,
\* the last of them just saved, and device 2 was never written
C26_Witness ==
    /\ Served("generate_anomaly_notifications")
    /\ request.device_id = 1
    /\ 1 \in DOMAIN notification_history
    /\ 2 \notin DOMAIN notification_history
    /\ Len(notification_history[1]) = 3
    /\ notification_history[1][1].status = "READ"
    /\ notification_history[1][2].status = "UNREAD"
    /\ notification_history[1][3].status = "UNREAD"
    /\ notification_history[1][3].timestamp = 2

NewestFirst(records) ==
    \A i, j \in DOMAIN records :
        i < j => records[i].timestamp >= records[j].timestamp

\* C27: in every response of the notification history endpoint unread_count
\* is the number of UNREAD records in the returned list and never exceeds
\* total_records, also when a notification_type or priority filter is
\* applied; the list holds at most limit records, newest first.
C27_UnreadCountOfReturnedList ==
    Served("get_notification_history")
        => /\ response.status_code = 200
           /\ response.body.unread_count
                = CountUnread(response.body.notifications)
           /\ response.body.unread_count <= response.body.total_records
           /\ Len(response.body.notifications) <= request.limit
           /\ NewestFirst(response.body.notifications)

\* C28: calling the mark-as-read endpoint for a device with no notification
\* history completes without error and reports status success with
\* marked_count 0, leaving the store unchanged.
C28_MarkWithoutHistorySucceeds ==
    [][Calls("mark_notifications_as_read")
            /\ request'.device_id \notin DOMAIN notification_history
        => /\ notification_history' = notification_history
           /\ response'.status_code = 200
           /\ response'.body.status = "success"
           /\ response'.body.marked_count = 0]_vars




====
